---------------------------- MODULE Spec2Model ----------------------------
(***************************************************************************)
(* A model of the LLM-Pedigree-Builder core: the schema and normalization  *)
(* layer (src/pedigree_builder.py) and the analysis engine                 *)
(* (src/analysis_engine.py).  Python values are modelled as tagged         *)
(* records, text as sequences of one-character strings, and every call as  *)
(* an outcome that either returns a value or raises an exception.          *)
(***************************************************************************)
EXTENDS Integers, Sequences, FiniteSets, TLC

VARIABLES
    payload,    \* the text handed to load_json_payload
    pedigree,   \* the parsed payload: the mapping handed to the other entry points
    orig,       \* the value of pedigree when it was built (never written afterwards)
    heap,       \* the person dicts, by address: the only objects the code mutates
    nx,         \* whether "import networkx" succeeded (analysis_engine.py:8-11)
    arg_inbreeding, \* the score handed to _risk_bucket, in units of 0.0001
    arg_flags,  \* the flags handed to _risk_bucket
    op,         \* the entry point called last
    result,     \* the outcome of the first call
    result2     \* the outcome of the call made on the first call's value

vars == <<payload, pedigree, orig, heap, nx, arg_inbreeding, arg_flags, op, result, result2>>

(***************************************************************************)
(* Text.  A str is a sequence of one-character strings.                    *)
(***************************************************************************)
\* the printable ASCII characters, from code point 32 on (the three that cannot
\* stand in a string here are named)
Ascii ==
    << " ", "!", "<quote>", "#", "$", "%", "&", "'", "(", ")", "*", "+", ",", "-", ".", "/",
       "0", "1", "2", "3", "4", "5", "6", "7", "8", "9", ":", ";", "<", "=", ">", "?",
       "@", "A", "B", "C", "D", "E", "F", "G", "H", "I", "J", "K", "L", "M", "N", "O",
       "P", "Q", "R", "S", "T", "U", "V", "W", "X", "Y", "Z", "[", "<backslash>", "]", "^", "_",
       "<backtick>", "a", "b", "c", "d", "e", "f", "g", "h", "i", "j", "k", "l", "m", "n", "o",
       "p", "q", "r", "s", "t", "u", "v", "w", "x", "y", "z", "{", "|", "}", "~" >>

Chars == {Ascii[i] : i \in 1..Len(Ascii)}

\* ord(c): the code point of a character
OrdTable == [c \in Chars |-> 31 + (CHOOSE i \in 1..Len(Ascii) : Ascii[i] = c)]

Ord(c) == OrdTable[c]

\* chr(n)
Chr(n) == Ascii[n - 31]

\* str.lower() on one character
LowerTable ==
    [c \in Chars |-> IF OrdTable[c] >= 65 /\ OrdTable[c] <= 90 THEN Chr(OrdTable[c] + 32) ELSE c]

LowerChar(c) == LowerTable[c]

\* str.lower()
Lower(s) == [i \in 1..Len(s) |-> LowerChar(s[i])]

\* the characters str.strip() removes
IsSpace(c) == c = " "

RECURSIVE LStrip(_)
LStrip(s) == IF s # <<>> /\ IsSpace(Head(s)) THEN LStrip(Tail(s)) ELSE s

RECURSIVE RStrip(_)
RStrip(s) ==
    IF s # <<>> /\ IsSpace(s[Len(s)]) THEN RStrip(SubSeq(s, 1, Len(s) - 1)) ELSE s

\* str.strip()
Strip(s) == RStrip(LStrip(s))

\* "needle in hay" for two strs
Contains(hay, needle) ==
    \E i \in 0..(Len(hay) - Len(needle)) :
        SubSeq(hay, i + 1, i + Len(needle)) = needle

\* a < b for two strs: code point order, a proper prefix first
RECURSIVE StrLess(_, _)
StrLess(a, b) ==
    IF b = <<>> THEN FALSE
    ELSE IF a = <<>> THEN TRUE
    ELSE IF Head(a) = Head(b) THEN StrLess(Tail(a), Tail(b))
    ELSE Ord(Head(a)) < Ord(Head(b))

IsDigit(c) == Ord(c) >= 48 /\ Ord(c) <= 57

DigitVal(c) == Ord(c) - 48

(***************************************************************************)
(* Python values.  t is the type; a dict's d is a function from its keys.  *)
(* A person dict lives in the heap and is held by reference.               *)
(***************************************************************************)
PyInt(n)   == [t |-> "int", n |-> n]
PyStr(s)   == [t |-> "str", s |-> s]
None       == [t |-> "NoneType"]
PyList(xs) == [t |-> "list", xs |-> xs]
PyDict(d)  == [t |-> "dict", d |-> d]
Ref(a)     == [t |-> "ref", a |-> a]

EmptyDict == [k \in {} |-> None]

\* isinstance(x, dict)
IsDict(x) == x.t \in {"dict", "ref"}

\* the key -> value function of a dict, read through the heap
Fields(h, x) == IF x.t = "ref" THEN h[x.a] ELSE x.d

\* dict.get(key, default)
Get(h, x, key, default) ==
    IF key \in DOMAIN Fields(h, x) THEN Fields(h, x)[key] ELSE default

\* d[key] = value
SetItem(d, key, value) ==
    [k \in (DOMAIN d) \cup {key} |-> IF k = key THEN value ELSE d[k]]

\* hash(x) succeeds: a list or a dict is unhashable
Hashable(x) == x.t \in {"int", "str", "NoneType"}

\* the outcome of a call
Return(v)   == [k |-> "return", v |-> v]
Raise(e, m) == [k |-> "raise", exc |-> e, msg |-> [text |-> m, arg |-> None]]
NotCalled   == [k |-> "none"]

Returned(o) == o.k = "return"
Raised(o)   == o.k = "raise"

\* what iterating x yields (for ... in x), or the TypeError
Iterate(h, x) ==
    CASE x.t = "list" -> Return(x.xs)
      [] x.t = "str"  -> Return([i \in 1..Len(x.s) |-> PyStr(<<x.s[i]>>)])
      [] x.t \in {"int", "NoneType"} -> Raise("TypeError", "object is not iterable")

\* the value with every reference replaced by the dict it points to: what == compares
RECURSIVE Deref(_, _)
Deref(h, x) ==
    CASE x.t = "ref"  -> PyDict(h[x.a])
      [] x.t = "list" -> PyList([i \in 1..Len(x.xs) |-> Deref(h, x.xs[i])])
      [] x.t = "dict" -> PyDict([k \in DOMAIN x.d |-> Deref(h, x.d[k])])
      [] OTHER        -> x

(***************************************************************************)
(* src/pedigree_builder.py                                                 *)
(***************************************************************************)
ALLOWED_GENDERS == {PyStr(<<"M">>), PyStr(<<"F">>), PyStr(<<"O">>)}

ALLOWED_RELATIONSHIP_TYPES ==
    {PyStr(<<"p", "a", "r", "e", "n", "t">>), PyStr(<<"c", "h", "i", "l", "d">>), PyStr(<<"s", "i", "b", "l", "i", "n", "g">>), PyStr(<<"s", "p", "o", "u", "s", "e">>),
     PyStr(<<"a", "d", "o", "p", "t", "e", "d">>), PyStr(<<"u", "n", "c", "l", "e">>), PyStr(<<"a", "u", "n", "t">>), PyStr(<<"c", "o", "u", "s", "i", "n">>)}

\* the number a run of digits denotes
RECURSIVE DigitsVal(_)
DigitsVal(s) ==
    IF s = <<>> THEN 0 ELSE 10 * DigitsVal(SubSeq(s, 1, Len(s) - 1)) + DigitVal(s[Len(s)])

AllDigits(s) == \A i \in 1..Len(s) : IsDigit(s[i])

\* the prefixes of s that the directive %m matches, in the order the regular
\* expression 1[0-2]|0[1-9]|[1-9] tries them
MonthMatches(s) ==
    (IF Len(s) >= 2 /\ s[1] = "1" /\ s[2] \in {"0", "1", "2"} THEN <<2>> ELSE <<>>)
    \o (IF Len(s) >= 2 /\ s[1] = "0" /\ IsDigit(s[2]) /\ s[2] # "0" THEN <<2>> ELSE <<>>)
    \o (IF Len(s) >= 1 /\ IsDigit(s[1]) /\ s[1] # "0" THEN <<1>> ELSE <<>>)

\* the same for %d: 3[01]|[12]\d|0[1-9]|[1-9]| [1-9]
DayMatches(s) ==
    (IF Len(s) >= 2 /\ s[1] = "3" /\ s[2] \in {"0", "1"} THEN <<2>> ELSE <<>>)
    \o (IF Len(s) >= 2 /\ s[1] \in {"1", "2"} /\ IsDigit(s[2]) THEN <<2>> ELSE <<>>)
    \o (IF Len(s) >= 2 /\ s[1] = "0" /\ IsDigit(s[2]) /\ s[2] # "0" THEN <<2>> ELSE <<>>)
    \o (IF Len(s) >= 1 /\ IsDigit(s[1]) /\ s[1] # "0" THEN <<1>> ELSE <<>>)
    \o (IF Len(s) >= 2 /\ s[1] = " " /\ IsDigit(s[2]) /\ s[2] # "0" THEN <<2>> ELSE <<>>)

IsLeap(y) == (y % 4 = 0 /\ y % 100 # 0) \/ y % 400 = 0

DaysInMonth(y, m) ==
    IF m = 2 THEN (IF IsLeap(y) THEN 29 ELSE 28)
    ELSE IF m \in {4, 6, 9, 11} THEN 30 ELSE 31

\* the text after a month of n characters goes on with "-" and a day
DayFollows(afterY, n) ==
    /\ Len(afterY) > n
    /\ afterY[n + 1] = "-"
    /\ DayMatches(SubSeq(afterY, n + 2, Len(afterY))) # <<>>

\* the length of the first month alternative after which a day follows, or 0
RECURSIVE FirstMonth(_, _)
FirstMonth(afterY, ns) ==
    IF ns = <<>> THEN 0
    ELSE IF DayFollows(afterY, Head(ns)) THEN Head(ns)
    ELSE FirstMonth(afterY, Tail(ns))

\* the number a matched day denotes (the day may start with a blank)
DayVal(dtxt) == DigitsVal(IF Head(dtxt) = " " THEN Tail(dtxt) ELSE dtxt)

\* the day matched at the start of afterM ends the text and is a day of month m
DayOk(y, m, afterM) ==
    /\ Head(DayMatches(afterM)) = Len(afterM)   \* else "unconverted data remains"
    /\ y >= 1                                    \* datetime.MINYEAR
    /\ DayVal(afterM) <= DaysInMonth(y, m)

MonthDayOk(y, afterY, n) ==
    /\ n > 0
    /\ DayOk(y, DigitsVal(SubSeq(afterY, 1, n)), SubSeq(afterY, n + 2, Len(afterY)))

\* datetime.strptime(s, "%Y-%m-%d") succeeds: the first match of the format's
\* regular expression ends the string and names a date of the calendar
StrptimeOk(s) ==
    /\ Len(s) >= 5
    /\ AllDigits(SubSeq(s, 1, 4))
    /\ s[5] = "-"
    /\ MonthDayOk(DigitsVal(SubSeq(s, 1, 4)), SubSeq(s, 6, Len(s)),
                  FirstMonth(SubSeq(s, 6, Len(s)), MonthMatches(SubSeq(s, 6, Len(s)))))

\* _is_valid_dob: True, False, or the TypeError strptime raises for a non-str
_is_valid_dob(value) ==
    IF value = PyStr(<<"a", "p", "p", "r", "o", "x">>) THEN Return(TRUE)
    ELSE IF value.t # "str" THEN Raise("TypeError", "strptime() argument 1 must be str")
    ELSE Return(StrptimeOk(value.s))

\* a variant of _normalize_relationship that reads the endpoints from the
\* alternate keys only: what it returns it does not leave alone when applied again
NormalizeRelationshipAltOnly(h, raw) ==
    IF ~IsDict(raw) THEN Raise("AttributeError", "object has no attribute 'get'")
    ELSE LET type == Get(h, raw, "type", PyStr(<<>>))
         IN  IF type.t # "str"
             THEN Raise("AttributeError", "object has no attribute 'lower'")
             ELSE Return(PyDict([from |-> Get(h, raw, "from_id", None),
                                 to   |-> Get(h, raw, "to_id", None),
                                 type |-> PyStr(Strip(Lower(type.s)))]))

\* _normalize_relationship
_normalize_relationship(h, raw) ==
    IF ~IsDict(raw) THEN Raise("AttributeError", "object has no attribute 'get'")
    ELSE LET type == Get(h, raw, "type", PyStr(<<>>))
         IN  IF type.t # "str"
             THEN Raise("AttributeError", "object has no attribute 'lower'")
             ELSE Return(PyDict([from |-> Get(h, raw, "from", Get(h, raw, "from_id", None)),
                               to   |-> Get(h, raw, "to", Get(h, raw, "to_id", None)),
                               type |-> PyStr(Strip(Lower(type.s)))]))

\* default_pedigree
default_pedigree == PyDict([people |-> PyList(<<>>), relationships |-> PyList(<<>>)])

\* a variant of DeepCopy that hands back the object itself: ensure_unique_ids
\* without its deepcopy, writing the ids into the caller's people
DeepCopyAlias(h, x) == [val |-> x, heap |-> h]

\* copy.deepcopy(x): a person dict is copied to a fresh address; the values it
\* holds are immutable here, so their copies are the values
DeepCopy(h, x) ==
    IF x.t = "ref" THEN [val |-> Ref(Len(h) + 1), heap |-> Append(h, h[x.a])]
    ELSE [val |-> x, heap |-> h]

\* the first index enumerate() hands out (start=1)
EnumerateStart == 1

\* the loop of ensure_unique_ids from the i-th person on
RECURSIVE EnsureUniqueIdsFrom(_, _, _, _)
EnsureUniqueIdsFrom(h, people, i, repaired) ==
    IF i > Len(people) THEN [out |-> Return(PyList(repaired)), heap |-> h]
    ELSE LET c     == DeepCopy(h, people[i])
             index == i - 1 + EnumerateStart
         IN  IF c.val.t = "ref"
             THEN EnsureUniqueIdsFrom(
                      [c.heap EXCEPT ![c.val.a] = SetItem(@, "id", PyInt(index))],
                      people, i + 1, Append(repaired, c.val))
             ELSE [out  |-> Raise("TypeError", "object does not support item assignment"),
                   heap |-> c.heap]

\* ensure_unique_ids
ensure_unique_ids(h, people) ==
    LET it == Iterate(h, people)
    IN  IF Raised(it) THEN [out |-> it, heap |-> h]
        ELSE EnsureUniqueIdsFrom(h, it.v, 1, <<>>)

\* a variant of the relationship loop that puts each entry before the ones
\* already normalized
RECURSIVE NormalizeRelationshipsNewestFirst(_, _, _, _)
NormalizeRelationshipsNewestFirst(h, rels, i, acc) ==
    IF i > Len(rels) THEN Return(PyList(acc))
    ELSE IF Raised(_normalize_relationship(h, rels[i])) THEN _normalize_relationship(h, rels[i])
    ELSE NormalizeRelationshipsNewestFirst(h, rels, i + 1,
             <<_normalize_relationship(h, rels[i]).v>> \o acc)

\* the relationship loop of normalize_pedigree from the i-th entry on
RECURSIVE NormalizeRelationshipsFrom(_, _, _, _)
NormalizeRelationshipsFrom(h, rels, i, acc) ==
    IF i > Len(rels) THEN Return(PyList(acc))
    ELSE LET r == _normalize_relationship(h, rels[i])
         IN  IF Raised(r) THEN r
             ELSE NormalizeRelationshipsFrom(h, rels, i + 1, Append(acc, r.v))

\* "for relationship in pedigree.get("relationships", [])", it what iterating gives
NormalizeRelationships(h, it) ==
    IF Raised(it) THEN it ELSE NormalizeRelationshipsFrom(h, it.v, 1, <<>>)

\* the end of normalize_pedigree, once people and relationships are computed
NormalizeResult(people, rels) ==
    IF Raised(rels) THEN [out |-> rels, heap |-> people.heap]
    ELSE [out  |-> Return(PyDict([default_pedigree.d EXCEPT !["people"] = people.out.v,
                                                            !["relationships"] = rels.v])),
          heap |-> people.heap]

\* normalize_pedigree after ensure_unique_ids
NormalizeAfterPeople(ped, people) ==
    IF Raised(people.out) THEN people
    ELSE NormalizeResult(people,
             NormalizeRelationships(people.heap,
                 Iterate(people.heap, Get(people.heap, ped, "relationships", PyList(<<>>)))))

\* normalize_pedigree: the outcome and the heap it leaves
normalize_pedigree(h, ped) ==
    IF ~IsDict(ped)
    THEN [out |-> Raise("AttributeError", "object has no attribute 'get'"), heap |-> h]
    ELSE NormalizeAfterPeople(ped, ensure_unique_ids(h, Get(h, ped, "people", PyList(<<>>))))

\* what validate_pedigree returns
Valid == Return([ok |-> TRUE, error |-> None])
Invalid(text, arg) == Return([ok |-> FALSE, error |-> [text |-> text, arg |-> arg]])
Pass == [k |-> "pass"]

required_keys == {"id", "name", "gender", "dob", "conditions"}

\* the dob and conditions checks of one person, dob what _is_valid_dob gave
ValidateDob(f, dob) ==
    IF Raised(dob) THEN dob
    ELSE IF ~dob.v THEN Invalid("Invalid dob", f["dob"])
    ELSE IF f["conditions"].t # "list" THEN Invalid("conditions must be a list", None)
    ELSE Pass

\* the checks of one person dict with the fields f, in the order of the code
ValidateFields(f) ==
    IF ~(required_keys \subseteq DOMAIN f)
    THEN Invalid("Person missing required keys", None)
    ELSE IF f["id"].t # "int" THEN Invalid("Person id must be an integer", None)
    ELSE IF ~Hashable(f["gender"]) THEN Raise("TypeError", "unhashable type")
    ELSE IF f["gender"] \notin ALLOWED_GENDERS
    THEN Invalid("Unsupported gender value", f["gender"])
    ELSE ValidateDob(f, _is_valid_dob(f["dob"]))

\* the checks of one person; Pass when all succeed
ValidatePerson(h, person) ==
    IF ~IsDict(person) THEN Invalid("Each person must be an object", None)
    ELSE ValidateFields(Fields(h, person))

\* the people loop of validate_pedigree: the ids collected, or the outcome that ends it
RECURSIVE ValidatePeopleFrom(_, _, _, _)
ValidatePeopleFrom(h, people, i, person_ids) ==
    IF i > Len(people) THEN [k |-> "pass", ids |-> person_ids]
    ELSE LET r == ValidatePerson(h, people[i])
         IN  IF r.k # "pass" THEN r
             ELSE ValidatePeopleFrom(h, people, i + 1,
                                     person_ids \cup {Fields(h, people[i])["id"]})

\* the checks of one normalized relationship n
ValidateEndpoints(n, person_ids) ==
    IF ~Hashable(n["from"]) THEN Raise("TypeError", "unhashable type")
    ELSE IF n["from"] \notin person_ids
    THEN Invalid("Relationship references unknown person id", None)
    ELSE IF ~Hashable(n["to"]) THEN Raise("TypeError", "unhashable type")
    ELSE IF n["to"] \notin person_ids
    THEN Invalid("Relationship references unknown person id", None)
    ELSE IF n["type"] \notin ALLOWED_RELATIONSHIP_TYPES
    THEN Invalid("Unsupported relationship type", n["type"])
    ELSE Pass

\* the checks of one relationship, n what _normalize_relationship gave
ValidateRelationship(n, person_ids) ==
    IF Raised(n) THEN n ELSE ValidateEndpoints(n.v.d, person_ids)

RECURSIVE ValidateRelationshipsFrom(_, _, _, _)
ValidateRelationshipsFrom(h, rels, i, person_ids) ==
    IF i > Len(rels) THEN Valid
    ELSE LET r == ValidateRelationship(_normalize_relationship(h, rels[i]), person_ids)
         IN  IF r.k # "pass" THEN r
             ELSE ValidateRelationshipsFrom(h, rels, i + 1, person_ids)

\* "for rel in pedigree["relationships"]", rit what iterating gives
ValidateRelationships(h, rit, person_ids) ==
    IF Raised(rit) THEN rit ELSE ValidateRelationshipsFrom(h, rit.v, 1, person_ids)

\* validate_pedigree after the people loop, ppl what the loop gave
ValidateAfterPeople(h, f, ppl) ==
    IF ppl.k # "pass" THEN ppl
    ELSE ValidateRelationships(h, Iterate(h, f["relationships"]), ppl.ids)

\* "for person in pedigree["people"]", pit what iterating gives
ValidatePeople(h, f, pit) ==
    IF Raised(pit) THEN pit
    ELSE ValidateAfterPeople(h, f, ValidatePeopleFrom(h, pit.v, 1, {}))

\* validate_pedigree of a dict with the fields f
ValidateDict(h, f) ==
    IF ~({"people", "relationships"} \subseteq DOMAIN f)
    THEN Invalid("Pedigree must include 'people' and 'relationships'", None)
    ELSE ValidatePeople(h, f, Iterate(h, f["people"]))

\* validate_pedigree
validate_pedigree(h, ped) ==
    IF ~IsDict(ped) THEN Invalid("Pedigree must be a JSON object", None)
    ELSE ValidateDict(h, Fields(h, ped))

\* json.loads: a text is either malformed or the serialization of a value; the
\* parser builds fresh objects, so each person dict gets an address of its own
RECURSIVE InternPeople(_, _, _, _)
InternPeople(h, xs, i, acc) ==
    IF i > Len(xs) THEN [val |-> PyList(acc), heap |-> h]
    ELSE IF xs[i].t = "dict"
         THEN InternPeople(Append(h, xs[i].d), xs, i + 1, Append(acc, Ref(Len(h) + 1)))
         ELSE InternPeople(h, xs, i + 1, Append(acc, xs[i]))

\* json.loads of a well-formed text, p its people with their addresses
InternDict(j, p) ==
    [out |-> Return(PyDict([j.d EXCEPT !["people"] = p.val])), heap |-> p.heap]

json_loads(h, text) ==
    IF ~text.wellformed
    THEN [out |-> Raise("JSONDecodeError", "Expecting value"), heap |-> h]
    ELSE IF /\ text.value.t = "dict"
            /\ "people" \in DOMAIN text.value.d
            /\ text.value.d["people"].t = "list"
    THEN InternDict(text.value, InternPeople(h, text.value.d["people"].xs, 1, <<>>))
    ELSE [out |-> Return(text.value), heap |-> h]

\* the end of load_json_payload, v what validate_pedigree gave
LoadResult(normalized, v) ==
    IF Raised(v) THEN [out |-> v, heap |-> normalized.heap]
    ELSE IF ~v.v.ok
    THEN \* error is a non-empty str here, so "error or ..." is error
         [out  |-> [k |-> "raise", exc |-> "PedigreeValidationError", msg |-> v.v.error],
          heap |-> normalized.heap]
    ELSE normalized

\* load_json_payload after normalize_pedigree
LoadAfterNormalize(normalized) ==
    IF Raised(normalized.out) THEN normalized
    ELSE LoadResult(normalized, validate_pedigree(normalized.heap, normalized.out.v))

\* load_json_payload after json.loads
LoadAfterParse(parsed) ==
    IF Raised(parsed.out)
    THEN \* the message carries the parser's diagnostic
         [out  |-> [k |-> "raise", exc |-> "PedigreeValidationError",
                    msg |-> [text |-> "Invalid JSON payload", arg |-> parsed.out.msg]],
          heap |-> parsed.heap]
    ELSE LoadAfterNormalize(normalize_pedigree(parsed.heap, parsed.out.v))

\* load_json_payload
load_json_payload(h, text) == LoadAfterParse(json_loads(h, text))

(***************************************************************************)
(* src/analysis_engine.py.  A graph of either backend is its nodes and its *)
(* edges in insertion order; an edge is <<u, v>> with the type it carries. *)
(***************************************************************************)
RECURSIVE SeqToSet(_)
SeqToSet(s) == IF s = <<>> THEN {} ELSE {Head(s)} \cup SeqToSet(Tail(s))

InSeq(x, s) == \E i \in 1..Len(s) : s[i] = x

\* a dict keyed by node, as its keys in insertion order: add a key if it is new
AddKey(keys, x) == IF InSeq(x, keys) THEN keys ELSE Append(keys, x)

\* edge_data[(u, v)] = attrs: a pair already present keeps its place
PutEdge(edges, u, v, type) ==
    IF \E i \in 1..Len(edges) : edges[i].u = u /\ edges[i].v = v
    THEN [i \in 1..Len(edges) |->
             IF edges[i].u = u /\ edges[i].v = v THEN [u |-> u, v |-> v, type |-> type]
             ELSE edges[i]]
    ELSE Append(edges, [u |-> u, v |-> v, type |-> type])

\* person["id"], relationship["from"], ...: the value or the error of the subscript
Subscript(h, x, key) ==
    IF ~IsDict(x) THEN Raise("TypeError", "indices must be integers")
    ELSE IF key \notin DOMAIN Fields(h, x) THEN Raise("KeyError", key)
    ELSE Return(Fields(h, x)[key])

\* graph.add_node(id, **person) of either backend
AddNode(h, g, person) ==
    LET id == Subscript(h, person, "id")
    IN  IF Raised(id) THEN id
        ELSE IF ~Hashable(id.v) THEN Raise("TypeError", "unhashable type")
        ELSE IF g.backend = "nx" /\ id.v = None
        THEN Raise("ValueError", "None cannot be a node")
        ELSE Return([g EXCEPT !.nodes = AddKey(@, id.v)])

\* graph.add_edge(from, to, type=type): networkx also adds the endpoints as nodes
AddEdge(h, g, rel) ==
    LET from == Subscript(h, rel, "from")
        to   == Subscript(h, rel, "to")
        type == Subscript(h, rel, "type")
    IN  IF Raised(from) THEN from
        ELSE IF Raised(to) THEN to
        ELSE IF Raised(type) THEN type
        ELSE IF ~Hashable(from.v) \/ ~Hashable(to.v)
        THEN Raise("TypeError", "unhashable type")
        ELSE IF g.backend = "nx"
        THEN IF from.v = None \/ to.v = None
             THEN Raise("ValueError", "None cannot be a node")
             ELSE Return([g EXCEPT !.nodes = AddKey(AddKey(@, from.v), to.v),
                                   !.edges = PutEdge(@, from.v, to.v, type.v)])
        ELSE Return([g EXCEPT !.edges = PutEdge(@, from.v, to.v, type.v)])

RECURSIVE AddNodesFrom(_, _, _, _)
AddNodesFrom(h, g, people, i) ==
    IF i > Len(people) THEN Return(g)
    ELSE LET r == AddNode(h, g, people[i])
         IN  IF Raised(r) THEN r ELSE AddNodesFrom(h, r.v, people, i + 1)

RECURSIVE AddEdgesFrom(_, _, _, _)
AddEdgesFrom(h, g, rels, i) ==
    IF i > Len(rels) THEN Return(g)
    ELSE LET r == AddEdge(h, g, rels[i])
         IN  IF Raised(r) THEN r ELSE AddEdgesFrom(h, r.v, rels, i + 1)

\* build_graph once the nodes are added
BuildEdges(h, ped, g1) ==
    IF Raised(g1) THEN g1
    ELSE LET rit == Iterate(h, Get(h, ped, "relationships", PyList(<<>>)))
         IN  IF Raised(rit) THEN rit ELSE AddEdgesFrom(h, g1.v, rit.v, 1)

\* "for person in pedigree.get("people", [])", pit what iterating gives
BuildNodes(h, ped, g0, pit) ==
    IF Raised(pit) THEN pit ELSE BuildEdges(h, ped, AddNodesFrom(h, g0, pit.v, 1))

\* build_graph
build_graph(h, useNx, ped) ==
    IF ~IsDict(ped) THEN Raise("AttributeError", "object has no attribute 'get'")
    ELSE BuildNodes(h, ped,
                    [backend |-> IF useNx THEN "nx" ELSE "fallback",
                     nodes |-> <<>>, edges |-> <<>>],
                    Iterate(h, Get(h, ped, "people", PyList(<<>>))))

\* the keys of adj in _build_cycle_basis_fallback: the nodes, then every endpoint
RECURSIVE AdjKeysFrom(_, _, _)
AdjKeysFrom(keys, edges, i) ==
    IF i > Len(edges) THEN keys
    ELSE AdjKeysFrom(AddKey(AddKey(keys, edges[i].u), edges[i].v), edges, i + 1)

\* adj[x] of the fallback: a set of neighbours
AdjSet(g, x) ==
    {e.v : e \in {d \in SeqToSet(g.edges) : d.u = x}}
        \cup {e.u : e \in {d \in SeqToSet(g.edges) : d.v = x}}

\* the order in which CPython iterates a set of small ints: ascending
RECURSIVE SetOrder(_)
SetOrder(S) ==
    IF S = {} THEN <<>>
    ELSE LET m == CHOOSE x \in S : \A y \in S : x.n <= y.n
         IN  <<m>> \o SetOrder(S \ {m})

\* a variant of the neighbour loop without "if nbr == par: continue": the edge
\* back to the parent is then taken for a cycle
RECURSIVE FallbackNbrsNoParentSkip(_, _, _, _, _, _, _)
FallbackNbrsNoParentSkip(nbrs, i, cur, par, stack, parent, cycles) ==
    IF i > Len(nbrs) THEN [stack |-> stack, parent |-> parent, cycles |-> cycles]
    ELSE IF nbrs[i] \in parent
    THEN FallbackNbrsNoParentSkip(nbrs, i + 1, cur, par, stack, parent,
                                  Append(cycles, <<cur, nbrs[i]>>))
    ELSE FallbackNbrsNoParentSkip(nbrs, i + 1, cur, par,
                                  Append(stack, [node |-> nbrs[i], par |-> cur]),
                                  parent \cup {nbrs[i]}, cycles)

\* "for nbr in adj[cur]" of the fallback from the i-th neighbour on
RECURSIVE FallbackNbrs(_, _, _, _, _, _, _)
FallbackNbrs(nbrs, i, cur, par, stack, parent, cycles) ==
    IF i > Len(nbrs) THEN [stack |-> stack, parent |-> parent, cycles |-> cycles]
    ELSE LET nbr == nbrs[i]
         IN  IF nbr = par
             THEN FallbackNbrs(nbrs, i + 1, cur, par, stack, parent, cycles)
             ELSE IF nbr \in parent
             THEN FallbackNbrs(nbrs, i + 1, cur, par, stack, parent,
                               Append(cycles, <<cur, nbr>>))
             ELSE FallbackNbrs(nbrs, i + 1, cur, par,
                               Append(stack, [node |-> nbr, par |-> cur]),
                               parent \cup {nbr}, cycles)

\* the fallback's step for a node popped unvisited, r what its neighbour loop gave
RECURSIVE FallbackStack(_, _, _, _, _)
FallbackVisit(g, node, visited, r) ==
    FallbackStack(g, r.stack, visited \cup {node}, r.parent, r.cycles)

\* "while stack" of the fallback; parent is kept as the set of its keys
FallbackStack(g, stack, visited, parent, cycles) ==
    IF stack = <<>> THEN [visited |-> visited, cycles |-> cycles]
    ELSE IF stack[Len(stack)].node \in visited
    THEN FallbackStack(g, SubSeq(stack, 1, Len(stack) - 1), visited, parent, cycles)
    ELSE FallbackVisit(g, stack[Len(stack)].node, visited,
                       FallbackNbrs(SetOrder(AdjSet(g, stack[Len(stack)].node)), 1,
                                    stack[Len(stack)].node, stack[Len(stack)].par,
                                    SubSeq(stack, 1, Len(stack) - 1), parent, cycles))

\* "for node in adj" of the fallback
RECURSIVE FallbackRoots(_, _, _, _, _)
FallbackNextRoot(g, keys, i, r) == FallbackRoots(g, keys, i + 1, r.visited, r.cycles)

FallbackRoots(g, keys, i, visited, cycles) ==
    IF i > Len(keys) THEN cycles
    ELSE IF keys[i] \in visited THEN FallbackRoots(g, keys, i + 1, visited, cycles)
    ELSE FallbackNextRoot(g, keys, i,
                          FallbackStack(g, <<[node |-> keys[i], par |-> None]>>, visited,
                                        {keys[i]}, cycles))

\* _build_cycle_basis_fallback
_build_cycle_basis_fallback(g) ==
    FallbackRoots(g, AdjKeysFrom(g.nodes, g.edges, 1), 1, {}, <<>>)

\* graph.to_undirected(): the neighbours of each node in insertion order, the
\* edges added node by node in the order of the directed graph
RECURSIVE UndirectedFrom(_, _, _)
UndirectedFrom(adj, pairs, i) ==
    IF i > Len(pairs) THEN adj
    ELSE LET u  == pairs[i].u
             v  == pairs[i].v
             a1 == [adj EXCEPT ![u] = AddKey(@, v)]
         IN  UndirectedFrom([a1 EXCEPT ![v] = AddKey(@, u)], pairs, i + 1)

\* the edges leaving node x, in insertion order
RECURSIVE EdgesFrom(_, _, _)
EdgesFrom(edges, x, i) ==
    IF i > Len(edges) THEN <<>>
    ELSE (IF edges[i].u = x THEN <<edges[i]>> ELSE <<>>) \o EdgesFrom(edges, x, i + 1)

RECURSIVE EdgesByNode(_, _)
EdgesByNode(g, i) ==
    IF i > Len(g.nodes) THEN <<>>
    ELSE EdgesFrom(g.edges, g.nodes[i], 1) \o EdgesByNode(g, i + 1)

to_undirected(g) ==
    UndirectedFrom([n \in SeqToSet(g.nodes) |-> <<>>], EdgesByNode(g, 1), 1)

\* the cycle nx.cycle_basis closes at z: [nbr, z, pred[z], ...] up to the first
\* ancestor that nbr has used
RECURSIVE ClimbCycle(_, _, _, _)
ClimbCycle(cycle, p, pn, pred) ==
    IF p \in pn THEN Append(cycle, p) ELSE ClimbCycle(Append(cycle, p), pred[p], pn, pred)

\* "for nbr in G[z]" of nx.cycle_basis from the i-th neighbour on
RECURSIVE NxNbrs(_, _, _, _, _, _, _)
NxNbrs(nbrs, i, z, stack, pred, used, cycles) ==
    IF i > Len(nbrs)
    THEN [stack |-> stack, pred |-> pred, used |-> used, cycles |-> cycles]
    ELSE LET nbr == nbrs[i]
         IN  IF nbr \notin DOMAIN used
             THEN NxNbrs(nbrs, i + 1, z, Append(stack, nbr), pred @@ (nbr :> z),
                         used @@ (nbr :> {z}), cycles)
             ELSE IF nbr = z
             THEN NxNbrs(nbrs, i + 1, z, stack, pred, used, Append(cycles, <<z>>))
             ELSE IF nbr \notin used[z]
             THEN NxNbrs(nbrs, i + 1, z, stack, pred,
                         [used EXCEPT ![nbr] = @ \cup {z}],
                         Append(cycles, ClimbCycle(<<nbr, z>>, pred[z], used[nbr], pred)))
             ELSE NxNbrs(nbrs, i + 1, z, stack, pred, used, cycles)

\* "while stack" of nx.cycle_basis
RECURSIVE NxStack(_, _, _, _, _)
NxPopped(adj, r) == NxStack(adj, r.stack, r.pred, r.used, r.cycles)

NxStack(adj, stack, pred, used, cycles) ==
    IF stack = <<>> THEN [pred |-> pred, cycles |-> cycles]
    ELSE NxPopped(adj, NxNbrs(adj[stack[Len(stack)]], 1, stack[Len(stack)],
                              SubSeq(stack, 1, Len(stack) - 1), pred, used, cycles))

\* the nodes of gnodes that are not keys of pred
RECURSIVE Unreached(_, _, _)
Unreached(gnodes, pred, i) ==
    IF i > Len(gnodes) THEN <<>>
    ELSE (IF gnodes[i] \in DOMAIN pred THEN <<>> ELSE <<gnodes[i]>>)
         \o Unreached(gnodes, pred, i + 1)

\* "while gnodes" of nx.cycle_basis: the root of a component is the node popitem()
\* returns, the one inserted last
RECURSIVE NxComponents(_, _, _)
NxNextComponent(adj, gnodes, r) == NxComponents(adj, Unreached(gnodes, r.pred, 1), r.cycles)

NxComponents(adj, gnodes, cycles) ==
    IF gnodes = <<>> THEN cycles
    ELSE NxNextComponent(adj, gnodes,
                         NxStack(adj, <<gnodes[Len(gnodes)]>>,
                                 (gnodes[Len(gnodes)] :> gnodes[Len(gnodes)]),
                                 (gnodes[Len(gnodes)] :> {}), cycles))

\* nx.cycle_basis(graph.to_undirected())
nx_cycle_basis(g) == NxComponents(to_undirected(g), g.nodes, <<>>)

RECURSIVE SumLen(_)
SumLen(cycles) == IF cycles = <<>> THEN 0 ELSE Len(Head(cycles)) + SumLen(Tail(cycles))

\* graph.number_of_nodes()
number_of_nodes(g) == Len(g.nodes)

\* A score is kept in units of 0.0001, the precision round(., 4) leaves.
\* 0.03125 = 3125 / 100000 and the cap 0.25 = 2500 units.
ScaleNum == 3125
ScaleDen == 10
CapUnits == 2500

Max(a, b) == IF a >= b THEN a ELSE b

\* round(min(0.25, total / max(1, n) * 0.03125), 4), in units of 0.0001: the set
\* of values the double arithmetic can give.  The scaled value is num / den units
\* exactly.  round() takes a tie to the even neighbour when total / n is exact in
\* binary; when it is not, the double lies just beside the tie and either
\* neighbour can come out.
ScaledScores(total, n) ==
    LET num == total * ScaleNum
        den == Max(1, n) * ScaleDen
        q   == num \div den
        rem == num % den
    IN  IF num >= CapUnits * den THEN {CapUnits}
        ELSE IF 2 * rem < den THEN {q}
        ELSE IF 2 * rem > den THEN {q + 1}
        ELSE IF total % Max(1, n) = 0 THEN {IF q % 2 = 0 THEN q ELSE q + 1}
        ELSE {q, q + 1}

\* the cycle list estimate_inbreeding sums over
Cycles(g) == IF g.backend = "nx" THEN nx_cycle_basis(g) ELSE _build_cycle_basis_fallback(g)

\* estimate_inbreeding once the cycles are known
ScoreOf(g, cycles) ==
    IF cycles = <<>> THEN {0} ELSE ScaledScores(SumLen(cycles), number_of_nodes(g))

\* estimate_inbreeding: the set of scores it can return
estimate_inbreeding(g) == ScoreOf(g, Cycles(g))

\* the (condition.lower(), person["id"]) pairs _condition_to_people appends, in
\* order, from the j-th condition of one person on
RECURSIVE ConditionPairs(_, _, _, _)
ConditionPairs(h, person, conditions, j) ==
    IF j > Len(conditions) THEN Return(<<>>)
    ELSE IF conditions[j].t # "str"
    THEN Raise("AttributeError", "object has no attribute 'lower'")
    ELSE LET id == Subscript(h, person, "id")
         IN  IF Raised(id) THEN id
             ELSE LET rest == ConditionPairs(h, person, conditions, j + 1)
                  IN  IF Raised(rest) THEN rest
                      ELSE Return(<<[condition |-> Lower(conditions[j].s), id |-> id.v]>>
                                  \o rest.v)

\* the pairs of one person, cit what iterating the conditions gives
PersonPairs(h, person, cit) ==
    IF Raised(cit) THEN cit ELSE ConditionPairs(h, person, cit.v, 1)

\* the pairs of one person followed by those of the people after
Chain(mine, rest) ==
    IF Raised(mine) THEN mine
    ELSE IF Raised(rest) THEN rest
    ELSE Return(mine.v \o rest.v)

\* the people loop of _condition_to_people from the i-th person on; a loop that
\* raises at one person never reaches the people after
RECURSIVE PeoplePairs(_, _, _)
PeoplePairs(h, people, i) ==
    IF i > Len(people) THEN Return(<<>>)
    ELSE IF ~IsDict(people[i])
    THEN Raise("AttributeError", "object has no attribute 'get'")
    ELSE Chain(PersonPairs(h, people[i],
                           Iterate(h, Get(h, people[i], "conditions", PyList(<<>>)))),
               PeoplePairs(h, people, i + 1))

\* the keys of a dict filled by setdefault, in insertion order
RECURSIVE KeysInOrder(_, _)
KeysInOrder(pairs, keys) ==
    IF pairs = <<>> THEN keys
    ELSE KeysInOrder(Tail(pairs), AddKey(keys, Head(pairs).condition))

RECURSIVE IdsOf(_, _)
IdsOf(pairs, condition) ==
    IF pairs = <<>> THEN <<>>
    ELSE (IF Head(pairs).condition = condition THEN <<Head(pairs).id>> ELSE <<>>)
         \o IdsOf(Tail(pairs), condition)

\* the mapping as a sequence of [condition, affected_ids], keys its keys in order
MappingOf(pairs, keys) ==
    [i \in 1..Len(keys) |->
        [condition |-> keys[i], affected_ids |-> IdsOf(pairs, keys[i])]]

ConditionMap(pairs) ==
    IF Raised(pairs) THEN pairs ELSE Return(MappingOf(pairs.v, KeysInOrder(pairs.v, <<>>)))

PeopleOf(h, pit) == IF Raised(pit) THEN pit ELSE PeoplePairs(h, pit.v, 1)

\* _condition_to_people
_condition_to_people(h, ped) ==
    ConditionMap(PeopleOf(h, Iterate(h, Get(h, ped, "people", PyList(<<>>)))))

\* _has_edge_with_type, the same for both backends
_has_edge_with_type(g, u, v, relationship_type) ==
    \E i \in 1..Len(g.edges) :
        g.edges[i].u = u /\ g.edges[i].v = v /\ g.edges[i].type = PyStr(relationship_type)

\* _successors
RECURSIVE SuccessorsFrom(_, _, _)
SuccessorsFrom(edges, node, i) ==
    IF i > Len(edges) THEN <<>>
    ELSE (IF edges[i].u = node THEN <<edges[i].v>> ELSE <<>>)
         \o SuccessorsFrom(edges, node, i + 1)

_successors(g, node) == SuccessorsFrom(g.edges, node, 1)

RecessivePrefix == <<"A", "u", "t", "o", "s", "o", "m", "a", "l", " ", "r", "e", "c", "e", "s", "s", "i", "v", "e", " ", "p", "a", "t", "t", "e", "r", "n", " ", "p", "o", "s", "s", "i", "b", "l", "e", " ", "f", "o", "r", " ">>
DominantPrefix  == <<"A", "u", "t", "o", "s", "o", "m", "a", "l", " ", "d", "o", "m", "i", "n", "a", "n", "t", " ", "t", "r", "a", "n", "s", "m", "i", "s", "s", "i", "o", "n", " ", "p", "o", "s", "s", "i", "b", "l", "e", " ", "f", "o", "r", " ">>
Sentinel        == <<"N", "o", " ", "c", "l", "e", "a", "r", " ", "i", "n", "h", "e", "r", "i", "t", "a", "n", "c", "e", " ", "p", "a", "t", "t", "e", "r", "n", " ", "d", "e", "t", "e", "c", "t", "e", "d", " ", "f", "r", "o", "m", " ", "a", "v", "a", "i", "l", "a", "b", "l", "e", " ", "d", "a", "t", "a">>

\* the minimum number of affected ids the sibling test asks for
MinAffected == 2

\* sibling_pairs >= 1 for the affected ids of one condition
SiblingPairs(g, affected_ids) ==
    /\ Len(affected_ids) >= MinAffected
    /\ \E a, b \in 1..Len(affected_ids) :
           /\ ~(affected_ids[a].n >= affected_ids[b].n)
           /\ _has_edge_with_type(g, affected_ids[a], affected_ids[b], <<"s", "i", "b", "l", "i", "n", "g">>)

\* a hit of the parent/child loop among the successors succ of affected_id
HitAmong(g, affected_ids, affected_id, succ) ==
    \E n \in 1..Len(succ) :
        /\ InSeq(succ[n], affected_ids)
        /\ \/ _has_edge_with_type(g, affected_id, succ[n], <<"p", "a", "r", "e", "n", "t">>)
           \/ _has_edge_with_type(g, affected_id, succ[n], <<"c", "h", "i", "l", "d">>)

\* parent_child_hits >= 1 for the affected ids of one condition
ParentChildHits(g, affected_ids) ==
    \E a \in 1..Len(affected_ids) :
        HitAmong(g, affected_ids, affected_ids[a], _successors(g, affected_ids[a]))

\* the flags one condition appends, in order
ConditionFlags(g, entry) ==
    (IF SiblingPairs(g, entry.affected_ids)
     THEN <<RecessivePrefix \o entry.condition>> ELSE <<>>)
    \o (IF ParentChildHits(g, entry.affected_ids)
        THEN <<DominantPrefix \o entry.condition>> ELSE <<>>)

RECURSIVE FlagsFrom(_, _, _)
FlagsFrom(g, condition_map, i) ==
    IF i > Len(condition_map) THEN <<>>
    ELSE ConditionFlags(g, condition_map[i]) \o FlagsFrom(g, condition_map, i + 1)

\* sorted(S) for a set of strs
RECURSIVE Sorted(_)
Sorted(S) ==
    IF S = {} THEN <<>>
    ELSE LET m == CHOOSE x \in S : \A y \in S : y = x \/ StrLess(x, y)
         IN  <<m>> \o Sorted(S \ {m})

\* the flags appended before the sentinel is considered
FlagsOf(g, condition_map) ==
    IF Raised(condition_map) THEN condition_map
    ELSE Return(FlagsFrom(g, condition_map.v, 1))

RawFlags(h, g, ped) == FlagsOf(g, _condition_to_people(h, ped))

\* the end of infer_inheritance_patterns: the sentinel, then sorted(set(flags))
SortedFlags(raw) ==
    IF Raised(raw) THEN raw
    ELSE Return(Sorted(SeqToSet(IF raw.v = <<>> THEN <<Sentinel>> ELSE raw.v)))

\* infer_inheritance_patterns
infer_inheritance_patterns(h, g, ped) == SortedFlags(RawFlags(h, g, ped))

\* the thresholds of _risk_bucket, 0.0625 and 0.015625, in units of 0.000001
HighThreshold     == 62500
ModerateThreshold == 15625
UnitsPerScore     == 100

AnyFlagContains(flags, word) ==
    \E i \in 1..Len(flags) : Contains(Lower(flags[i]), word)

\* a variant of _risk_bucket that tests for Moderate before it tests for High
RiskBucketModerateFirst(inbreeding, flags) ==
    IF inbreeding * UnitsPerScore > ModerateThreshold
       \/ AnyFlagContains(flags, <<"r", "e", "c", "e", "s", "s", "i", "v", "e">>)
    THEN "Moderate"
    ELSE IF inbreeding * UnitsPerScore > HighThreshold
            \/ AnyFlagContains(flags, <<"d", "o", "m", "i", "n", "a", "n", "t">>)
    THEN "High"
    ELSE "Low"

\* _risk_bucket
_risk_bucket(inbreeding, flags) ==
    IF inbreeding * UnitsPerScore > HighThreshold \/ AnyFlagContains(flags, <<"d", "o", "m", "i", "n", "a", "n", "t">>)
    THEN "High"
    ELSE IF inbreeding * UnitsPerScore > ModerateThreshold
            \/ AnyFlagContains(flags, <<"r", "e", "c", "e", "s", "s", "i", "v", "e">>)
    THEN "Moderate"
    ELSE "Low"

Advice1   == "This tool is not medical advice; review with a licensed genetic counselor."
Advice2   == "Consider confirmatory genetic testing if there are multiple affected relatives."
Expedited == "Recommend expedited specialist referral and targeted screening."
NonUrgent == "Recommend non-urgent genetics referral and family-wide history validation."

\* a variant of Recommendations without the Moderate branch
RecommendationsHighOnly(risk) ==
    <<Advice1, Advice2>> \o (IF risk = "High" THEN <<Expedited>> ELSE <<>>)

\* the recommendations analyze_pedigree builds for a risk level
Recommendations(risk) ==
    <<Advice1, Advice2>>
    \o (IF risk = "High" THEN <<Expedited>>
        ELSE IF risk = "Moderate" THEN <<NonUrgent>> ELSE <<>>)

\* the AnalysisResult analyze_pedigree builds
AnalysisResult(inbreeding, flag_list, risk) ==
    [inbreeding_coefficient |-> inbreeding,
     inheritance_flags      |-> flag_list,
     risk_level             |-> risk,
     recommendations        |-> Recommendations(risk)]

\* analyze_pedigree once the score and the flags are computed
AnalyzeFlags(scores, flag_list) ==
    IF Raised(flag_list) THEN {flag_list}
    ELSE {Return(AnalysisResult(s, flag_list.v, _risk_bucket(s, flag_list.v))) : s \in scores}

\* analyze_pedigree once the graph is built
AnalyzeGraph(h, ped, graph) ==
    IF Raised(graph) THEN {graph}
    ELSE AnalyzeFlags(estimate_inbreeding(graph.v),
                      infer_inheritance_patterns(h, graph.v, ped))

\* analyze_pedigree: the set of outcomes it can have
analyze_pedigree(h, useNx, ped) == AnalyzeGraph(h, ped, build_graph(h, useNx, ped))


(***************************************************************************)
(* src/data_extractor.py: pseudonymize_pedigree.                           *)
(***************************************************************************)
\* str(n) for an int n
RECURSIVE NatToStr(_)
NatToStr(n) ==
    IF n < 10 THEN <<Chr(48 + n)>> ELSE NatToStr(n \div 10) \o <<Chr(48 + (n % 10))>>

IntToStr(n) == IF n < 0 THEN <<"-">> \o NatToStr(0 - n) ELSE NatToStr(n)

\* repr(x) of an int, a str without quotes in it, None, or a list of these
RECURSIVE Repr(_)
RECURSIVE ReprItems(_, _)
ReprItems(xs, i) ==
    IF i > Len(xs) THEN <<>>
    ELSE (IF i > 1 THEN <<",", " ">> ELSE <<>>) \o Repr(xs[i]) \o ReprItems(xs, i + 1)

Repr(x) ==
    CASE x.t = "int"      -> IntToStr(x.n)
      [] x.t = "str"      -> <<"'">> \o x.s \o <<"'">>
      [] x.t = "NoneType" -> <<"N", "o", "n", "e">>
      [] x.t = "list"     -> <<"[">> \o ReprItems(x.xs, 1) \o <<"]">>

\* what an f-string writes for {x}: str(x)
Format(x) == IF x.t = "str" THEN x.s ELSE Repr(x)

\* a payload: a text that is malformed, or the text of a JSON value
WellFormed(j) == [wellformed |-> TRUE, value |-> j]
Malformed     == [wellformed |-> FALSE]

\* json.dumps(x): the text that denotes the value x has now
json_dumps(h, x) == WellFormed(Deref(h, x))

\* a variant of the name assignment that writes the person's position in the
\* list in place of the person's id
PseudonymizeByPosition(h, people, i) ==
    [h EXCEPT ![people[i].a] = SetItem(@, "name", PyStr(<<"P", "e", "r", "s", "o", "n", "-">> \o IntToStr(i)))]

\* person["name"] = f"Person-{person['id']}" for the i-th person, a dict with an id
PseudonymizeOne(h, people, i) ==
    [h EXCEPT ![people[i].a] =
        SetItem(@, "name", PyStr(<<"P", "e", "r", "s", "o", "n", "-">> \o Format(Fields(h, people[i])["id"])))]

\* the loop of pseudonymize_pedigree from the i-th person on
RECURSIVE PseudonymizeFrom(_, _, _, _)
PseudonymizeFrom(h, anonymized, people, i) ==
    IF i > Len(people) THEN [out |-> Return(anonymized), heap |-> h]
    ELSE IF Raised(Subscript(h, people[i], "id"))
    THEN [out |-> Subscript(h, people[i], "id"), heap |-> h]
    ELSE PseudonymizeFrom(PseudonymizeOne(h, people, i), anonymized, people, i + 1)

\* "for person in anonymized.get("people", [])", pit what iterating gives
PseudonymizePeople(h, anonymized, pit) ==
    IF Raised(pit) THEN [out |-> pit, heap |-> h]
    ELSE PseudonymizeFrom(h, anonymized, pit.v, 1)

\* pseudonymize_pedigree after json.loads(json.dumps(pedigree))
PseudonymizeParsed(parsed) ==
    IF ~IsDict(parsed.out.v)
    THEN [out  |-> Raise("AttributeError", "object has no attribute 'get'"),
          heap |-> parsed.heap]
    ELSE PseudonymizePeople(parsed.heap, parsed.out.v,
             Iterate(parsed.heap, Get(parsed.heap, parsed.out.v, "people", PyList(<<>>))))

\* pseudonymize_pedigree: the outcome and the heap it leaves
pseudonymize_pedigree(h, ped) == PseudonymizeParsed(json_loads(h, json_dumps(h, ped)))

(***************************************************************************)
(* src/pedigree_builder.py: to_gedcom.  The lines are a sequence of        *)
(* strings; the function returns them joined by "\n".                      *)
(***************************************************************************)
\* "\n".join(lines)
RECURSIVE Join(_, _)
Join(lines, i) ==
    IF i > Len(lines) THEN <<>>
    ELSE (IF i > 1 THEN <<"\n">> ELSE <<>>) \o lines[i] \o Join(lines, i + 1)

\* the two lines of each condition from the i-th on
RECURSIVE ConditionLines(_, _)
ConditionLines(conditions, i) ==
    IF i > Len(conditions) THEN <<>>
    ELSE <<<<"1", " ", "N", "O", "T", "E">>, <<"2", " ", "C", "O", "N", "T", " ", "C", "o", "n", "d", "i", "t", "i", "o", "n", ":", " ">> \o Format(conditions[i])>>
             \o ConditionLines(conditions, i + 1)

\* "for condition in person.get("conditions", [])", cit what iterating gives
GedcomConditions(lines, cit) ==
    IF Raised(cit) THEN cit ELSE Return(lines \o ConditionLines(cit.v, 1))

\* "1 SEX {sex if sex in {'M', 'F'} else 'U'}"
SexLine(sex) == <<"1", " ", "S", "E", "X", " ">> \o (IF sex \in {PyStr(<<"M">>), PyStr(<<"F">>)} THEN sex.s ELSE <<"U">>)

\* the five lines every person gets, for a dict with an id and a name
GedcomPersonHead(h, person) ==
    << <<"0", " ", "@", "I">> \o Format(Fields(h, person)["id"]) \o <<"@", " ", "I", "N", "D", "I">>,
       <<"1", " ", "N", "A", "M", "E", " ">> \o Format(Fields(h, person)["name"]),
       SexLine(Get(h, person, "gender", PyStr(<<"O">>))),
       <<"1", " ", "B", "I", "R", "T">>,
       <<"2", " ", "D", "A", "T", "E", " ">> \o Format(Get(h, person, "dob", PyStr(<<"a", "p", "p", "r", "o", "x">>))) >>

\* the body of the loop over the people: the lines so far with the person's added
GedcomPerson(h, person, lines) ==
    IF Raised(Subscript(h, person, "id")) THEN Subscript(h, person, "id")
    ELSE IF Raised(Subscript(h, person, "name")) THEN Subscript(h, person, "name")
    ELSE IF ~Hashable(Get(h, person, "gender", PyStr(<<"O">>)))
    THEN Raise("TypeError", "unhashable type")
    ELSE GedcomConditions(lines \o GedcomPersonHead(h, person),
             Iterate(h, Get(h, person, "conditions", PyList(<<>>))))

\* the loop over the people from the i-th on
RECURSIVE GedcomPeopleFrom(_, _, _, _)
GedcomPeopleFrom(h, people, i, lines) ==
    IF i > Len(people) THEN Return(lines)
    ELSE IF Raised(GedcomPerson(h, people[i], lines)) THEN GedcomPerson(h, people[i], lines)
    ELSE GedcomPeopleFrom(h, people, i + 1, GedcomPerson(h, people[i], lines).v)

FamilyTypes == {PyStr(<<"s", "p", "o", "u", "s", "e">>), PyStr(<<"p", "a", "r", "e", "n", "t">>), PyStr(<<"c", "h", "i", "l", "d">>)}

\* the three lines of a family record, for a relationship with from and to
FamilyLines(rel, family_index) ==
    << <<"0", " ", "@", "F">> \o IntToStr(family_index) \o <<"@", " ", "F", "A", "M">>,
       (IF rel["type"] = PyStr(<<"c", "h", "i", "l", "d">>) THEN <<"1", " ", "C", "H", "I", "L", " ", "@", "I">> ELSE <<"1", " ", "H", "U", "S", "B", " ", "@", "I">>)
           \o Format(rel["from"]) \o <<"@">>,
       (CASE rel["type"] = PyStr(<<"s", "p", "o", "u", "s", "e">>) -> <<"1", " ", "W", "I", "F", "E", " ", "@", "I">>
          [] rel["type"] = PyStr(<<"p", "a", "r", "e", "n", "t">>) -> <<"1", " ", "C", "H", "I", "L", " ", "@", "I">>
          [] rel["type"] = PyStr(<<"c", "h", "i", "l", "d">>)  -> <<"1", " ", "H", "U", "S", "B", " ", "@", "I">>)
           \o Format(rel["to"]) \o <<"@">> >>

\* the loop over the relationships from the i-th on, then the trailer
RECURSIVE GedcomRelationshipsFrom(_, _, _, _, _)
GedcomRelationshipsFrom(h, rels, i, family_index, lines) ==
    IF i > Len(rels) THEN Return(lines \o <<<<"0", " ", "T", "R", "L", "R">>>>)
    ELSE IF ~IsDict(rels[i]) THEN Raise("AttributeError", "object has no attribute 'get'")
    ELSE IF ~Hashable(Get(h, rels[i], "type", PyStr(<<>>)))
    THEN Raise("TypeError", "unhashable type")
    ELSE IF Get(h, rels[i], "type", PyStr(<<>>)) \notin FamilyTypes
    THEN GedcomRelationshipsFrom(h, rels, i + 1, family_index, lines)
    ELSE IF Raised(Subscript(h, rels[i], "from")) THEN Subscript(h, rels[i], "from")
    ELSE IF Raised(Subscript(h, rels[i], "to")) THEN Subscript(h, rels[i], "to")
    ELSE GedcomRelationshipsFrom(h, rels, i + 1, family_index + 1,
             lines \o FamilyLines(Fields(h, rels[i]), family_index))

FirstFamilyIndex == 1

\* to_gedcom after the loop over the people, rit what iterating the relationships gives
GedcomRelationships(h, people_lines, rit) ==
    IF Raised(people_lines) THEN people_lines
    ELSE IF Raised(rit) THEN rit
    ELSE GedcomRelationshipsFrom(h, rit.v, 1, FirstFamilyIndex, people_lines.v)

\* to_gedcom after the header, pit what iterating the people gives
GedcomPeople(h, ped, pit) ==
    IF Raised(pit) THEN pit
    ELSE GedcomRelationships(h,
             GedcomPeopleFrom(h, pit.v, 1, <<<<"0", " ", "H", "E", "A", "D">>, <<"1", " ", "G", "E", "D", "C">>, <<"2", " ", "V", "E", "R", "S", " ", "5", ".", "5">>>>),
             Iterate(h, Get(h, ped, "relationships", PyList(<<>>))))

\* the lines to_gedcom builds, or the error it raises
GedcomLines(h, ped) ==
    IF ~IsDict(ped) THEN Raise("AttributeError", "object has no attribute 'get'")
    ELSE GedcomPeople(h, ped, Iterate(h, Get(h, ped, "people", PyList(<<>>))))

\* to_gedcom: the text returned, or the error raised
to_gedcom(h, ped) ==
    IF Raised(GedcomLines(h, ped)) THEN GedcomLines(h, ped)
    ELSE Return(PyStr(Join(GedcomLines(h, ped).v, 1)))
(***************************************************************************)
(* The inputs.                                                             *)
(***************************************************************************)
MaxPeople == 2          \* people in a payload of the schema layer
MaxRelationships == 1   \* relationships in a payload of the schema layer
MaxAnalysisPeople == 3  \* people in a pedigree handed to the analysis engine
MaxAnalysisRelationships == 3

SeqsUpTo(S, n) == UNION {[1..k -> S] : k \in 0..n}

\* the sequences of s with one element replaced by one of D
OneReplaced(s, D) == {[s EXCEPT ![i] = d] : i \in DOMAIN s, d \in D}

PersonDict(id, gender, dob, conditions) ==
    PyDict([id |-> id, name |-> PyStr(<<"A">>), gender |-> gender, dob |-> dob,
          conditions |-> conditions])

Plain(id) == PersonDict(id, PyStr(<<"F">>), PyStr(<<"a", "p", "p", "r", "o", "x">>), PyList(<<>>))

Without(d, key) == PyDict([k \in (DOMAIN d.d) \ {key} |-> d.d[k]])

\* people validate_pedigree accepts once they carry an id
GoodPeople ==
    { Plain(PyInt(1)), Plain(PyInt(2)), Without(Plain(PyInt(1)), "id"),
      PersonDict(PyInt(7), PyStr(<<"M">>), PyStr(<<"2", "0", "0", "0", "-", "0", "2", "-", "2", "9">>), PyList(<<PyStr(<<"h", "t", "n">>)>>)) }

\* entries with one thing wrong
BadPeople ==
    { PyStr(<<"x">>),
      Without(Plain(PyInt(1)), "name"),
      Plain(PyStr(<<"1">>)),
      PersonDict(PyInt(1), PyStr(<<"X">>), PyStr(<<"a", "p", "p", "r", "o", "x">>), PyList(<<>>)),
      PersonDict(PyInt(1), PyList(<<PyStr(<<"F">>)>>), PyStr(<<"a", "p", "p", "r", "o", "x">>), PyList(<<>>)),
      PersonDict(PyInt(1), PyStr(<<"O">>), PyStr(<<"2", "0", "0", "1", "-", "0", "2", "-", "2", "9">>), PyList(<<>>)),
      PersonDict(PyInt(1), PyStr(<<"F">>), PyInt(5), PyList(<<>>)),
      PersonDict(PyInt(1), PyStr(<<"F">>), PyStr(<<"a", "p", "p", "r", "o", "x">>), None) }

PeopleLists ==
    LET good == SeqsUpTo(GoodPeople, MaxPeople)
    IN  good \cup UNION {OneReplaced(s, BadPeople) : s \in good}

Rel(from, to, type) == PyDict([from |-> from, to |-> to, type |-> type])

AltRel(from, to, type) == PyDict([from_id |-> from, to_id |-> to, type |-> type])

\* a relationship that carries the canonical keys and the alternate ones
BothKeys ==
    PyDict([from |-> PyInt(1), from_id |-> PyInt(3), to |-> PyInt(1), to_id |-> PyInt(3),
          type |-> PyStr(<<"S", "P", "O", "U", "S", "E">>)])

SchemaRelationships ==
    { Rel(PyInt(1), PyInt(2), PyStr(<<"p", "a", "r", "e", "n", "t">>)),
      AltRel(PyInt(1), PyInt(2), PyStr(<<" ", "P", "a", "r", "e", "n", "t", " ">>)),
      Rel(PyInt(1), PyInt(3), PyStr(<<"s", "i", "b", "l", "i", "n", "g">>)),
      AltRel(PyInt(3), PyInt(1), PyStr(<<"c", "h", "i", "l", "d">>)),
      BothKeys,
      Rel(PyInt(1), PyInt(1), PyStr(<<"f", "r", "i", "e", "n", "d">>)),
      Without(Rel(PyInt(1), PyInt(1), PyStr(<<"x">>)), "type"),
      Without(Rel(PyInt(1), PyInt(1), PyStr(<<"a", "u", "n", "t">>)), "from"),
      Rel(PyInt(1), PyInt(1), PyInt(5)),
      Rel(PyList(<<PyInt(1)>>), PyInt(1), PyStr(<<"c", "o", "u", "s", "i", "n">>)),
      PyStr(<<"x">>) }

\* two relationships, in either order
RelationshipPairs ==
    { <<AltRel(PyInt(1), PyInt(2), PyStr(<<" ", "P", "a", "r", "e", "n", "t", " ">>)), BothKeys>>,
      <<BothKeys, AltRel(PyInt(1), PyInt(2), PyStr(<<" ", "P", "a", "r", "e", "n", "t", " ">>))>> }

RelationshipLists == SeqsUpTo(SchemaRelationships, MaxRelationships) \cup RelationshipPairs

\* the values a payload can parse to
SchemaValues ==
    { PyDict([people |-> PyList(p), relationships |-> PyList(r)]) :
          p \in PeopleLists, r \in RelationshipLists }
    \cup { PyDict([people |-> PyList(p)]) : p \in SeqsUpTo(GoodPeople, 1) }
    \cup { PyDict([relationships |-> PyList(r)]) : r \in RelationshipLists }
    \cup { PyDict([people |-> None, relationships |-> PyList(<<>>)]),
           PyDict([people |-> PyList(<<>>), relationships |-> None]),
           PyDict(EmptyDict), PyList(<<PyInt(1)>>), PyInt(5), PyStr(<<"x">>), None }


SchemaTexts == {WellFormed(j) : j \in SchemaValues} \cup {Malformed}

(***************************************************************************)
(* The state after a payload has arrived and been parsed by the caller.    *)
(***************************************************************************)
InitWith(text, useNx) ==
    LET parsed == json_loads(<<>>, text)
    IN  /\ payload = text
        /\ pedigree = (IF Returned(parsed.out) THEN parsed.out.v ELSE None)
        /\ heap = parsed.heap
        /\ orig = (IF Returned(parsed.out) THEN Deref(parsed.heap, parsed.out.v) ELSE None)
        /\ nx = useNx
        /\ arg_inbreeding = 0
        /\ arg_flags = <<>>
        /\ op = "init"
        /\ result = NotCalled
        /\ result2 = NotCalled

Init == \E text \in SchemaTexts : InitWith(text, FALSE)

Inputs == <<payload, pedigree, orig, nx, arg_inbreeding, arg_flags>>

\* load_json_payload(payload)
LoadJsonPayload ==
    /\ op = "init"
    /\ LET r == load_json_payload(heap, payload)
       IN  /\ result' = r.out
           /\ heap' = r.heap
    /\ op' = "load_json_payload"
    /\ UNCHANGED <<Inputs, result2>>

\* ensure_unique_ids(pedigree.get("people", [])), the call normalize_pedigree makes
EnsureUniqueIds ==
    /\ op = "init"
    /\ IsDict(pedigree)
    /\ LET r == ensure_unique_ids(heap, Get(heap, pedigree, "people", PyList(<<>>)))
       IN  /\ result' = r.out
           /\ heap' = r.heap
    /\ op' = "ensure_unique_ids"
    /\ UNCHANGED <<Inputs, result2>>

\* normalize_pedigree(pedigree)
NormalizePedigree ==
    /\ op = "init"
    /\ LET r == normalize_pedigree(heap, pedigree)
       IN  /\ result' = r.out
           /\ heap' = r.heap
    /\ op' = "normalize_pedigree"
    /\ UNCHANGED <<Inputs, result2>>

\* normalize_pedigree applied to what normalize_pedigree returned
NormalizeAgain ==
    /\ op = "normalize_pedigree"
    /\ Returned(result)
    /\ LET r == normalize_pedigree(heap, result.v)
       IN  /\ result2' = r.out
           /\ heap' = r.heap
    /\ op' = "normalize_again"
    /\ UNCHANGED <<Inputs, result>>

\* pseudonymize_pedigree(pedigree)
PseudonymizePedigree ==
    /\ op = "init"
    /\ LET r == pseudonymize_pedigree(heap, pedigree)
       IN  /\ result' = r.out
           /\ heap' = r.heap
    /\ op' = "pseudonymize_pedigree"
    /\ UNCHANGED <<Inputs, result2>>

\* to_gedcom(pedigree)
ToGedcom ==
    /\ op = "init"
    /\ result' = to_gedcom(heap, pedigree)
    /\ op' = "to_gedcom"
    /\ UNCHANGED <<Inputs, heap, result2>>

\* validate_pedigree(pedigree)
ValidatePedigree ==
    /\ op = "init"
    /\ result' = validate_pedigree(heap, pedigree)
    /\ op' = "validate_pedigree"
    /\ UNCHANGED <<Inputs, heap, result2>>

Next ==
    \/ LoadJsonPayload
    \/ EnsureUniqueIds
    \/ NormalizePedigree
    \/ NormalizeAgain
    \/ ValidatePedigree
    \/ PseudonymizePedigree
    \/ ToGedcom

Spec == Init /\ [][Next]_vars

(***************************************************************************)
(* The analysis engine, called on a parsed pedigree.                       *)
(***************************************************************************)
Affected   == PyList(<<PyStr(<<"h", "t", "n">>)>>)
Unaffected == PyList(<<>>)

AnalysisPerson(id, conditions) ==
    PersonDict(PyInt(id), PyStr(<<"O">>), PyStr(<<"a", "p", "p", "r", "o", "x">>), conditions)

\* conditions lists that are out of the ordinary: another case, a repeated
\* name, an element that is no str, a name that holds a word _risk_bucket looks for
OddConditions ==
    { PyList(<<PyStr(<<"H", "T", "N">>)>>),
      PyList(<<PyStr(<<"h", "t", "n">>), PyStr(<<"h", "t", "n">>)>>),
      PyList(<<PyInt(5)>>),
      PyList(<<PyStr(<<"d", "o", "m", "i", "n", "a", "n", "t", " ", "x">>)>>) }

\* n people with the ids 1..n, each affected or not
BasePeople(n) ==
    {[i \in 1..n |-> AnalysisPerson(i, c[i])] : c \in [1..n -> {Affected, Unaffected}]}

\* the same with the conditions of one person out of the ordinary
OddPeople(n) ==
    UNION {{[s EXCEPT ![i] = AnalysisPerson(i, c)] : i \in 1..n, c \in OddConditions}
              : s \in BasePeople(n)}

AnalysisPeopleLists ==
    UNION {BasePeople(n) : n \in 0..MaxAnalysisPeople}
    \cup UNION {OddPeople(n) : n \in 1..(MaxAnalysisPeople - 1)}
    \cup {<<AnalysisPerson(1, Affected), AnalysisPerson(1, Affected)>>}
    \cup {[i \in 1..2 |-> AnalysisPerson(i, c)] : c \in OddConditions}

\* relationships among the people 1..3, validate_pedigree accepts each
AnalysisRelationships ==
    << Rel(PyInt(1), PyInt(2), PyStr(<<"s", "i", "b", "l", "i", "n", "g">>)),
       Rel(PyInt(2), PyInt(1), PyStr(<<"s", "i", "b", "l", "i", "n", "g">>)),
       Rel(PyInt(1), PyInt(2), PyStr(<<"p", "a", "r", "e", "n", "t">>)),
       Rel(PyInt(2), PyInt(3), PyStr(<<"p", "a", "r", "e", "n", "t">>)),
       Rel(PyInt(3), PyInt(1), PyStr(<<"c", "h", "i", "l", "d">>)),
       Rel(PyInt(1), PyInt(1), PyStr(<<"p", "a", "r", "e", "n", "t">>)) >>

\* relationships validate_pedigree accepts that normalize_pedigree would rewrite,
\* and one of a type the analysis engine does not look at
OddRelationships ==
    { AltRel(PyInt(1), PyInt(2), PyStr(<<"p", "a", "r", "e", "n", "t">>)),
      Rel(PyInt(1), PyInt(2), PyStr(<<" ", "P", "a", "r", "e", "n", "t">>)),
      Rel(PyInt(2), PyInt(1), PyStr(<<"S", "I", "B", "L", "I", "N", "G">>)),
      Rel(PyInt(2), PyInt(1), PyStr(<<"s", "p", "o", "u", "s", "e">>)) }

\* the numbers of S in ascending order
RECURSIVE Ascending(_)
Ascending(S) ==
    IF S = {} THEN <<>>
    ELSE LET m == CHOOSE x \in S : \A y \in S : x <= y
         IN  <<m>> \o Ascending(S \ {m})

Reversed(s) == [i \in 1..Len(s) |-> s[Len(s) + 1 - i]]

\* a choice of relationships, in the order given or in the opposite order (two
\* relationships between the same pair overwrite one another in the graph)
AnalysisRelationshipLists ==
    LET chosen == {S \in SUBSET (1..Len(AnalysisRelationships)) :
                       Cardinality(S) <= MaxAnalysisRelationships}
        picks  == {Ascending(S) : S \in chosen} \cup {Reversed(Ascending(S)) : S \in chosen}
    IN  {[i \in 1..Len(ix) |-> AnalysisRelationships[ix[i]]] : ix \in picks}
        \cup {<<r>> : r \in OddRelationships}
        \cup {<<r, AnalysisRelationships[b]>> :
                  r \in OddRelationships, b \in 1..Len(AnalysisRelationships)}

AnalysisValues ==
    { PyDict([people |-> PyList(p), relationships |-> PyList(r)]) :
          p \in AnalysisPeopleLists, r \in AnalysisRelationshipLists }

AnalysisTexts == {WellFormed(j) : j \in AnalysisValues}

InitAnalysis == \E text \in AnalysisTexts, useNx \in BOOLEAN : InitWith(text, useNx)

\* build_graph(pedigree)
BuildGraph ==
    /\ op = "init"
    /\ result' = build_graph(heap, nx, pedigree)
    /\ op' = "build_graph"
    /\ UNCHANGED <<Inputs, heap, result2>>

\* estimate_inbreeding(graph) on the graph build_graph returned
EstimateInbreeding ==
    /\ op = "build_graph"
    /\ Returned(result)
    /\ \E s \in estimate_inbreeding(result.v) : result2' = Return(s)
    /\ op' = "estimate_inbreeding"
    /\ UNCHANGED <<Inputs, heap, result>>

\* infer_inheritance_patterns(graph, pedigree) on the graph build_graph returned
InferInheritancePatterns ==
    /\ op = "build_graph"
    /\ Returned(result)
    /\ result2' = infer_inheritance_patterns(heap, result.v, pedigree)
    /\ op' = "infer_inheritance_patterns"
    /\ UNCHANGED <<Inputs, heap, result>>

\* analyze_pedigree(pedigree)
AnalyzePedigree ==
    /\ op = "init"
    /\ \E o \in analyze_pedigree(heap, nx, pedigree) : result' = o
    /\ op' = "analyze_pedigree"
    /\ UNCHANGED <<Inputs, heap, result2>>

\* analyze_pedigree on the pedigree load_json_payload returned
AnalyzeLoaded ==
    /\ op = "load_json_payload"
    /\ Returned(result)
    /\ \E o \in analyze_pedigree(heap, nx, result.v) : result2' = o
    /\ op' = "analyze_loaded"
    /\ UNCHANGED <<Inputs, heap, result>>

NextAnalysis ==
    \/ BuildGraph
    \/ EstimateInbreeding
    \/ InferInheritancePatterns
    \/ AnalyzePedigree
    \/ LoadJsonPayload
    \/ AnalyzeLoaded
    \/ ToGedcom

SpecAnalysis == InitAnalysis /\ [][NextAnalysis]_vars

(***************************************************************************)
(* _risk_bucket, called on a score and a list of flags.                    *)
(***************************************************************************)
MaxScoreStep == 20   \* the scores tried are the multiples of 0.0125 up to this many
MaxFlags == 2        \* and the flag lists hold up to this many flags

RiskScores == {i * 125 : i \in 0..MaxScoreStep} \cup {156, 157, 625, 626}

RiskFlags ==
    { Sentinel,
      RecessivePrefix \o <<"h", "t", "n">>,
      DominantPrefix \o <<"h", "t", "n">>,
      RecessivePrefix \o <<"d", "o", "m", "i", "n", "a", "n", "t", " ", "x">>,
      <<"D", "O", "M", "I", "N", "A", "N", "T", " ", "t", "r", "a", "i", "t">>,
      <<"c", "a", "r", "r", "i", "e", "r">> }

InitRisk ==
    /\ payload = Malformed
    /\ pedigree = None
    /\ orig = None
    /\ heap = <<>>
    /\ nx = FALSE
    /\ arg_inbreeding \in RiskScores
    /\ arg_flags \in SeqsUpTo(RiskFlags, MaxFlags)
    /\ op = "init"
    /\ result = NotCalled
    /\ result2 = NotCalled

\* _risk_bucket(arg_inbreeding, arg_flags)
RiskBucket ==
    /\ op = "init"
    /\ result' = Return(_risk_bucket(arg_inbreeding, arg_flags))
    /\ op' = "_risk_bucket"
    /\ UNCHANGED <<Inputs, heap, result2>>

NextRisk == RiskBucket

SpecRisk == InitRisk /\ [][NextRisk]_vars


(***************************************************************************)
(* Properties of the schema layer (src/pedigree_builder.py).               *)
(***************************************************************************)
\* validate_pedigree returns (True, None) for ped
Accepts(h, ped) == validate_pedigree(h, ped) = Valid

\* C1: load_json_payload has one of two outcomes: it returns a pedigree that
\* validate_pedigree accepts, or it raises PedigreeValidationError; it raises no
\* other error and returns no pedigree that validate_pedigree rejects.
C1_LoadReturnsValidOrValidationError ==
    op = "load_json_payload" =>
        \/ Returned(result) /\ Accepts(heap, result.v)
        \/ Raised(result) /\ result.exc = "PedigreeValidationError"

\* C2: normalize_pedigree never fails on a mapping: it returns a pedigree with
\* both keys people and relationships, a missing key giving the empty list.
C2_NormalizeNeverFails ==
    (op = "normalize_pedigree" /\ IsDict(pedigree)) =>
        /\ Returned(result)
        /\ DOMAIN result.v.d = {"people", "relationships"}
        /\ \A key \in {"people", "relationships"} :
               key \notin DOMAIN Fields(heap, pedigree) => result.v.d[key] = PyList(<<>>)

ResultFields ==
    {"inbreeding_coefficient", "inheritance_flags", "risk_level", "recommendations"}

\* C3: for every pedigree validate_pedigree accepts, analyze_pedigree returns an
\* AnalysisResult with its four fields and raises nothing.
C3_AnalyzeSucceedsOnAccepted ==
    (op = "analyze_pedigree" /\ Accepts(heap, pedigree)) =>
        Returned(result) /\ DOMAIN result.v = ResultFields

\* C4: normalize_pedigree is idempotent: for a valid pedigree P it returns, and
\* normalizing what it returned gives an equal pedigree, people and relationships
\* field for field.
C4_NormalizeIdempotent ==
    /\ (op \in {"normalize_pedigree", "normalize_again"} /\ Accepts(heap, pedigree))
           => Returned(result)
    /\ op = "normalize_again" =>
           /\ Returned(result2)
           /\ Deref(heap, result2.v) = Deref(heap, result.v)

\* a valid pedigree with a relationship in the alternate keys and a type that
\* is not yet lower case and trimmed has been normalized twice
C4_Witness ==
    /\ op = "normalize_again"
    /\ Accepts(heap, pedigree)
    /\ Returned(result2)
    /\ orig.d["relationships"] = PyList(<<AltRel(PyInt(1), PyInt(2), PyStr(<<" ", "P", "a", "r", "e", "n", "t", " ">>))>>)
    /\ Deref(heap, result.v).d["relationships"]
           = PyList(<<Rel(PyInt(1), PyInt(2), PyStr(<<"p", "a", "r", "e", "n", "t">>))>>)

\* the people of the input pedigree, and whether they are a list of person objects
InputPeople == Get(heap, pedigree, "people", PyList(<<>>))

InputIsPersonObjects ==
    /\ IsDict(pedigree)
    /\ InputPeople.t = "list"
    /\ \A i \in 1..Len(InputPeople.xs) : InputPeople.xs[i].t = "ref"

\* out holds as many people as inp, in the same order, with the ids 1..n, every
\* other field equal to the input's, and no person of out is a person of inp
Renumbered(h, inp, out) ==
    /\ Len(out) = Len(inp)
    /\ \A i \in 1..Len(inp) :
           /\ out[i].t = "ref"
           /\ DOMAIN h[out[i].a] = (DOMAIN h[inp[i].a]) \cup {"id"}
           /\ h[out[i].a]["id"] = PyInt(i)
           /\ \A key \in (DOMAIN h[inp[i].a]) \ {"id"} : h[out[i].a][key] = h[inp[i].a][key]
           /\ \A j \in 1..Len(inp) : out[i].a # inp[j].a

\* C5: for an input list of n person objects the people returned are n people in
\* the same order with the ids 1..n, equal to the input's in every other field,
\* and the input is left as it was (the output is a copy).  ensure_unique_ids
\* always returns them; normalize_pedigree hands them on whenever it returns.
C5_IdsRenumberedInputUntouched ==
    /\ (op = "ensure_unique_ids" /\ InputIsPersonObjects) =>
           /\ Returned(result)
           /\ Renumbered(heap, InputPeople.xs, result.v.xs)
           /\ Deref(heap, pedigree) = orig
    /\ (op = "normalize_pedigree" /\ InputIsPersonObjects /\ Returned(result)) =>
           /\ result.v.d["people"].t = "list"
           /\ Renumbered(heap, InputPeople.xs, result.v.d["people"].xs)
           /\ Deref(heap, pedigree) = orig

\* two people, one without an id and one with the id 7, have been normalized
C5_Witness ==
    /\ op = "normalize_pedigree"
    /\ InputIsPersonObjects
    /\ Returned(result)
    /\ Len(InputPeople.xs) = 2
    /\ "id" \notin DOMAIN heap[InputPeople.xs[1].a]
    /\ "id" \in DOMAIN heap[InputPeople.xs[2].a]
    /\ heap[InputPeople.xs[2].a]["id"] = PyInt(7)
    /\ heap[result.v.d["people"].xs[2].a]["id"] = PyInt(2)

\* the ids carried by the person objects of a list of people
IdsOfPeople(h, people) ==
    {Fields(h, people[i])["id"] :
         i \in {j \in 1..Len(people) :
                    IsDict(people[j]) /\ "id" \in DOMAIN Fields(h, people[j])}}

\* a relationship's endpoint: the canonical key, else the alternate key
Endpoint(h, rel, key, alt) == Get(h, rel, key, Get(h, rel, alt, None))

\* a mapping with a list of people and a list of relationships
HasBothLists(h, ped) ==
    /\ IsDict(ped)
    /\ {"people", "relationships"} \subseteq DOMAIN Fields(h, ped)
    /\ Fields(h, ped)["people"].t = "list"
    /\ Fields(h, ped)["relationships"].t = "list"

\* some relationship of ped has a from or a to that is no person's id
HasUnknownEndpoint(h, ped) ==
    LET people == Fields(h, ped)["people"].xs
        rels   == Fields(h, ped)["relationships"].xs
    IN  \E i \in 1..Len(rels) :
            /\ IsDict(rels[i])
            /\ \/ Endpoint(h, rels[i], "from", "from_id") \notin IdsOfPeople(h, people)
               \/ Endpoint(h, rels[i], "to", "to_id") \notin IdsOfPeople(h, people)

\* a date written YYYY-MM-DD that the calendar has
IsIsoDate(s) ==
    /\ Len(s) = 10
    /\ s[5] = "-" /\ s[8] = "-"
    /\ AllDigits(SubSeq(s, 1, 4)) /\ AllDigits(SubSeq(s, 6, 7)) /\ AllDigits(SubSeq(s, 9, 10))
    /\ DigitsVal(SubSeq(s, 1, 4)) >= 1
    /\ DigitsVal(SubSeq(s, 6, 7)) \in 1..12
    /\ DigitsVal(SubSeq(s, 9, 10)) \in
           1..DaysInMonth(DigitsVal(SubSeq(s, 1, 4)), DigitsVal(SubSeq(s, 6, 7)))

WellFormedPerson(h, person) ==
    /\ IsDict(person)
    /\ {"id", "name", "gender", "dob", "conditions"} \subseteq DOMAIN Fields(h, person)
    /\ Fields(h, person)["id"].t = "int"
    /\ Fields(h, person)["gender"] \in {PyStr(<<"M">>), PyStr(<<"F">>), PyStr(<<"O">>)}
    /\ Fields(h, person)["dob"].t = "str"
    /\ \/ Fields(h, person)["dob"].s = <<"a", "p", "p", "r", "o", "x">>
       \/ IsIsoDate(Fields(h, person)["dob"].s)
    /\ Fields(h, person)["conditions"].t = "list"

WellFormedRelationship(h, rel, ids) ==
    /\ IsDict(rel)
    /\ Endpoint(h, rel, "from", "from_id") \in ids
    /\ Endpoint(h, rel, "to", "to_id") \in ids
    /\ Get(h, rel, "type", None).t = "str"
    /\ PyStr(Strip(Lower(Get(h, rel, "type", None).s))) \in ALLOWED_RELATIONSHIP_TYPES

AllWellFormed(h, ped) ==
    LET people == Fields(h, ped)["people"].xs
        rels   == Fields(h, ped)["relationships"].xs
    IN  /\ \A i \in 1..Len(people) : WellFormedPerson(h, people[i])
        /\ \A i \in 1..Len(rels) :
               WellFormedRelationship(h, rels[i], IdsOfPeople(h, people))

\* C6: validate_pedigree returns (False, reason) for every pedigree in which a
\* relationship's from or to is not the id of a person in people, and (True, None)
\* for every pedigree whose people and relationships are all well-formed.
C6_ValidateRejectsUnknownAcceptsWellFormed ==
    (op = "validate_pedigree" /\ HasBothLists(heap, pedigree)) =>
        /\ HasUnknownEndpoint(heap, pedigree) =>
               Returned(result) /\ ~result.v.ok /\ result.v.error # None
        /\ AllWellFormed(heap, pedigree) => result = Valid

(***************************************************************************)
(* Properties of the analysis engine (src/analysis_engine.py).             *)
(***************************************************************************)
\* the edges of the undirected form of g, each the set of its ends
UndirectedEdges(g) == {{e.u, e.v} : e \in SeqToSet(g.edges)}

\* the nodes joined to one of S by a path over the edges E
RECURSIVE ReachFrom(_, _)
ReachFrom(S, E) ==
    LET T == S \cup UNION {e \in E : e \cap S # {}}
    IN  IF T = S THEN S ELSE ReachFrom(T, E)

\* the undirected form of g has a cycle: a loop at a node, or an edge whose ends
\* are joined without it
HasUndirectedCycle(g) ==
    \E e \in UndirectedEdges(g) :
        \/ Cardinality(e) = 1
        \/ \E u \in e : e \subseteq ReachFrom({u}, UndirectedEdges(g) \ {e})

Rank(bucket) == CASE bucket = "Low" -> 1 [] bucket = "Moderate" -> 2 [] bucket = "High" -> 3

\* C8: _risk_bucket is monotone in the score for fixed flags (no lower score
\* gets a higher bucket than the one returned), and High takes precedence: a
\* score above 0.0625 or a flag containing "dominant" gives High even when a
\* Moderate condition holds.
C8_RiskBucketMonotoneHighFirst ==
    op = "_risk_bucket" =>
        /\ result.v \in {"Low", "Moderate", "High"}
        /\ \A s1 \in RiskScores :
               s1 <= arg_inbreeding =>
                   Rank(_risk_bucket(s1, arg_flags)) <= Rank(result.v)
        /\ (arg_inbreeding > 625
               \/ \E i \in 1..Len(arg_flags) : Contains(Lower(arg_flags[i]), <<"d", "o", "m", "i", "n", "a", "n", "t">>))
               => result.v = "High"

\* a score above 0.0625 with a flag containing "recessive" has been bucketed High
C8_Witness ==
    /\ op = "_risk_bucket"
    /\ arg_inbreeding > 625
    /\ \E i \in 1..Len(arg_flags) : Contains(Lower(arg_flags[i]), <<"r", "e", "c", "e", "s", "s", "i", "v", "e">>)
    /\ result = Return("High")

IsPrefix(p, s) == Len(s) >= Len(p) /\ SubSeq(s, 1, Len(p)) = p

\* the condition names of a person, lower-cased
ConditionsOf(h, person) ==
    LET c == Get(h, person, "conditions", PyList(<<>>))
    IN  IF c.t # "list" THEN {}
        ELSE {Lower(c.xs[i].s) : i \in {j \in 1..Len(c.xs) : c.xs[j].t = "str"}}

\* g carries a sibling, parent or child edge between a and b, either way
QualifyingEdge(g, a, b) ==
    \E i \in 1..Len(g.edges) :
        /\ {g.edges[i].u, g.edges[i].v} = {a, b}
        /\ g.edges[i].type \in {PyStr(<<"s", "i", "b", "l", "i", "n", "g">>), PyStr(<<"p", "a", "r", "e", "n", "t">>), PyStr(<<"c", "h", "i", "l", "d">>)}

\* some condition is shared by two people of ped who have a qualifying relationship
SharedWithRelationship(h, g, ped) ==
    LET people == Get(h, ped, "people", PyList(<<>>)).xs
    IN  \E i, j \in 1..Len(people) :
            /\ i # j
            /\ ConditionsOf(h, people[i]) \cap ConditionsOf(h, people[j]) # {}
            /\ QualifyingEdge(g, Fields(h, people[i])["id"], Fields(h, people[j])["id"])

\* C9: infer_inheritance_patterns never returns an empty list; the sentinel is
\* in the result iff no recessive or dominant flag is, and then it is alone; the
\* flags are in lexicographic order without duplicate; and the result is the
\* sentinel alone when no condition is shared by two or more people with a
\* qualifying relationship.
C9_FlagsSentinelSortedDistinct ==
    (op = "infer_inheritance_patterns" /\ Returned(result2)) =>
        /\ result2.v # <<>>
        /\ \A i \in 1..Len(result2.v) :
               \/ result2.v = <<Sentinel>>
               \/ IsPrefix(RecessivePrefix, result2.v[i])
               \/ IsPrefix(DominantPrefix, result2.v[i])
        /\ \A i \in 1..(Len(result2.v) - 1) : StrLess(result2.v[i], result2.v[i + 1])
        /\ ~SharedWithRelationship(heap, result.v, pedigree) => result2.v = <<Sentinel>>

\* the recommendations rec are what the risk level asks for
RecommendationsFit(risk, rec) ==
    /\ risk \in {"Low", "Moderate", "High"}
    /\ Len(rec) = (IF risk = "Low" THEN 2 ELSE 3)
    /\ rec[1] = "This tool is not medical advice; review with a licensed genetic counselor."
    /\ rec[2] = "Consider confirmatory genetic testing if there are multiple affected relatives."
    /\ risk = "High" =>
           rec[3] = "Recommend expedited specialist referral and targeted screening."
    /\ risk = "Moderate" =>
           rec[3] = "Recommend non-urgent genetics referral and family-wide history validation."

\* C10: the recommendations of analyze_pedigree are the two advisory lines in
\* order, then the expedited-referral line when risk_level is High, the
\* non-urgent-referral line when it is Moderate, nothing when it is Low; and
\* risk_level is one of Low, Moderate, High.
C10_RecommendationsFollowRisk ==
    /\ (op = "analyze_pedigree" /\ Returned(result)) =>
           RecommendationsFit(result.v.risk_level, result.v.recommendations)
    /\ (op = "analyze_loaded" /\ Returned(result2)) =>
           RecommendationsFit(result2.v.risk_level, result2.v.recommendations)

\* an analysis has returned Moderate with the non-urgent line as its third
C10_Witness ==
    /\ op = "analyze_pedigree"
    /\ Returned(result)
    /\ result.v.risk_level = "Moderate"
    /\ Len(result.v.recommendations) = 3
    /\ result.v.recommendations[3] = NonUrgent

(***************************************************************************)
(* Properties of pseudonymize_pedigree and to_gedcom.                      *)
(***************************************************************************)
\* the people of the returned pedigree, read through the heap
ReturnedPeople == Deref(heap, result.v).d["people"].xs

\* C11: for every valid pedigree, pseudonymize_pedigree returns a pedigree whose
\* relationships equal the input's and whose people have the order, id, gender,
\* dob and conditions of the input's, each named "Person-{id}" for its own id;
\* the input pedigree, names included, is left as it was.
C11_PseudonymizeRenamesOnly ==
    (op = "pseudonymize_pedigree" /\ Accepts(heap, pedigree)) =>
        /\ Returned(result)
        /\ DOMAIN Deref(heap, result.v).d = DOMAIN orig.d
        /\ Deref(heap, result.v).d["relationships"] = orig.d["relationships"]
        /\ Len(ReturnedPeople) = Len(orig.d["people"].xs)
        /\ \A i \in 1..Len(ReturnedPeople) :
               /\ DOMAIN ReturnedPeople[i].d = DOMAIN orig.d["people"].xs[i].d
               /\ \A key \in (DOMAIN ReturnedPeople[i].d) \ {"name"} :
                      ReturnedPeople[i].d[key] = orig.d["people"].xs[i].d[key]
               /\ ReturnedPeople[i].d["name"]
                      = PyStr(<<"P", "e", "r", "s", "o", "n", "-">> \o IntToStr(orig.d["people"].xs[i].d["id"].n))
        /\ Deref(heap, pedigree) = orig

\* two valid people whose ids are not their positions have been renamed, with a
\* relationship between them kept
C11_Witness ==
    /\ op = "pseudonymize_pedigree"
    /\ Accepts(heap, pedigree)
    /\ Returned(result)
    /\ Len(ReturnedPeople) = 2
    /\ ReturnedPeople[1].d["name"] = PyStr(<<"P", "e", "r", "s", "o", "n", "-", "2">>)
    /\ ReturnedPeople[2].d["name"] = PyStr(<<"P", "e", "r", "s", "o", "n", "-", "1">>)
    /\ orig.d["people"].xs[1].d["name"] = PyStr(<<"A">>)
    /\ Len(orig.d["relationships"].xs) = 1

\* the positions from start on where the text holds a line break
Breaks(text, start) == {i \in start..Len(text) : text[i] = "\n"}

FirstBreak(text, start) == CHOOSE i \in Breaks(text, start) : \A j \in Breaks(text, start) : i <= j

\* text.split("\n") from the position start on
RECURSIVE SplitFrom(_, _)
SplitFrom(text, start) ==
    IF Breaks(text, start) = {} THEN <<SubSeq(text, start, Len(text))>>
    ELSE <<SubSeq(text, start, FirstBreak(text, start) - 1)>>
             \o SplitFrom(text, FirstBreak(text, start) + 1)

\* the line sequence of the text to_gedcom returned
ReturnedLines == SplitFrom(result.v.s, 1)

StartsWith(s, prefix) == Len(s) >= Len(prefix) /\ SubSeq(s, 1, Len(prefix)) = prefix

EndsWith(s, suffix) ==
    Len(s) >= Len(suffix) /\ SubSeq(s, Len(s) - Len(suffix) + 1, Len(s)) = suffix

IsIndiLine(line) == StartsWith(line, <<"0", " ", "@", "I">>) /\ EndsWith(line, <<"@", " ", "I", "N", "D", "I">>)

IsFamLine(line) == StartsWith(line, <<"0", " ", "@", "F">>) /\ EndsWith(line, <<"@", " ", "F", "A", "M">>)

\* the relationships of the input whose type is parent, child or spouse
IsFamilyRelationship(rel) ==
    rel.d["type"] \in {PyStr(<<"p", "a", "r", "e", "n", "t">>), PyStr(<<"c", "h", "i", "l", "d">>), PyStr(<<"s", "p", "o", "u", "s", "e">>)}

FamilyRelationships ==
    SelectSeq(orig.d["relationships"].xs, IsFamilyRelationship)

\* C12: for every valid pedigree, to_gedcom returns a text whose lines start with
\* "0 HEAD", "1 GEDC", "2 VERS 5.5" and end with "0 TRLR", whose INDI lines are
\* "0 @I{id}@ INDI" once for each person in order, and whose FAM lines are
\* "0 @F{k}@ FAM" for k = 1, 2, ... as many as there are relationships of type
\* parent, child or spouse.
C12_GedcomShape ==
    (op = "to_gedcom" /\ Accepts(heap, pedigree)) =>
        /\ Returned(result)
        /\ Len(ReturnedLines) >= 4
        /\ SubSeq(ReturnedLines, 1, 3) = <<<<"0", " ", "H", "E", "A", "D">>, <<"1", " ", "G", "E", "D", "C">>, <<"2", " ", "V", "E", "R", "S", " ", "5", ".", "5">>>>
        /\ ReturnedLines[Len(ReturnedLines)] = <<"0", " ", "T", "R", "L", "R">>
        /\ SelectSeq(ReturnedLines, IsIndiLine)
               = [i \in 1..Len(orig.d["people"].xs) |->
                      <<"0", " ", "@", "I">> \o IntToStr(orig.d["people"].xs[i].d["id"].n) \o <<"@", " ", "I", "N", "D", "I">>]
        /\ SelectSeq(ReturnedLines, IsFamLine)
               = [k \in 1..Len(FamilyRelationships) |->
                      <<"0", " ", "@", "F">> \o IntToStr(k) \o <<"@", " ", "F", "A", "M">>]

(***************************************************************************)
(* Properties of the flags, condition by condition.                        *)
(***************************************************************************)
\* the people of the pedigree analysed
AnalysedPeople == Get(heap, pedigree, "people", PyList(<<>>)).xs

\* the condition names that occur in the pedigree, lower-cased
AllConditions == UNION {ConditionsOf(heap, AnalysedPeople[i]) : i \in 1..Len(AnalysedPeople)}

\* g holds an edge of the given type from the person with id a to the one with id b
TypedEdge(g, a, b, type) ==
    \E i \in 1..Len(g.edges) :
        g.edges[i].u = a /\ g.edges[i].v = b /\ g.edges[i].type = PyStr(type)

\* two people with different ids have the condition and a sibling edge runs from
\* one to the other, whichever of the two it starts at
SiblingsShare(g, condition) ==
    \E i, j \in 1..Len(AnalysedPeople) :
        /\ Fields(heap, AnalysedPeople[i])["id"] # Fields(heap, AnalysedPeople[j])["id"]
        /\ condition \in ConditionsOf(heap, AnalysedPeople[i])
        /\ condition \in ConditionsOf(heap, AnalysedPeople[j])
        /\ TypedEdge(g, Fields(heap, AnalysedPeople[i])["id"],
                     Fields(heap, AnalysedPeople[j])["id"], <<"s", "i", "b", "l", "i", "n", "g">>)

\* C13: for every condition, the recessive flag is emitted iff two distinct
\* people with the condition are joined by a sibling edge, from the lower id to
\* the higher or from the higher to the lower.
C13_RecessiveIffSiblingEitherWay ==
    (op = "infer_inheritance_patterns" /\ Returned(result) /\ Returned(result2)) =>
        \A condition \in AllConditions :
            InSeq(RecessivePrefix \o condition, result2.v) <=> SiblingsShare(result.v, condition)

\* how many people of the pedigree have the condition
AffectedCount(condition) ==
    Cardinality({i \in 1..Len(AnalysedPeople) : condition \in ConditionsOf(heap, AnalysedPeople[i])})

\* a person with the condition has an outgoing parent or child edge to a
\* person with another id who has the condition too
TransmitsToAnother(g, condition) ==
    \E i, j \in 1..Len(AnalysedPeople) :
        /\ Fields(heap, AnalysedPeople[i])["id"] # Fields(heap, AnalysedPeople[j])["id"]
        /\ condition \in ConditionsOf(heap, AnalysedPeople[i])
        /\ condition \in ConditionsOf(heap, AnalysedPeople[j])
        /\ \/ TypedEdge(g, Fields(heap, AnalysedPeople[i])["id"],
                        Fields(heap, AnalysedPeople[j])["id"], <<"p", "a", "r", "e", "n", "t">>)
           \/ TypedEdge(g, Fields(heap, AnalysedPeople[i])["id"],
                        Fields(heap, AnalysedPeople[j])["id"], <<"c", "h", "i", "l", "d">>)

\* C14: for every condition, the dominant flag is emitted iff at least two
\* people have the condition and one of them has an outgoing parent or child
\* edge to another, different one of them; one affected person alone, and an
\* edge from a person to themselves, never produce it.
C14_DominantIffEdgeToAnotherAffected ==
    (op = "infer_inheritance_patterns" /\ Returned(result) /\ Returned(result2)) =>
        \A condition \in AllConditions :
            InSeq(DominantPrefix \o condition, result2.v)
                <=> (AffectedCount(condition) >= MinAffected
                         /\ TransmitsToAnother(result.v, condition))

(***************************************************************************)
(* The cycle list behind the score.                                        *)
(***************************************************************************)
\* the nodes of the connected component of n in the undirected form of g
ComponentOf(g, n) == ReachFrom({n}, UndirectedEdges(g))

\* E - V + 1 for the component with the nodes comp
CycleRank(g, comp) ==
    Cardinality({e \in UndirectedEdges(g) : e \subseteq comp}) - Cardinality(comp) + 1

\* how many of the cycles listed lie in the component with the nodes comp
CyclesWithin(cycles, comp) ==
    Cardinality({i \in 1..Len(cycles) : SeqToSet(cycles[i]) \subseteq comp})

\* c lists all the nodes of a cycle of the undirected form of g, each once: a
\* loop at one node, or three or more nodes each joined to the next and the
\* last to the first
ListsACycle(g, c) ==
    \/ Len(c) = 1 /\ {c[1]} \in UndirectedEdges(g)
    \/ /\ Len(c) >= 3
       /\ Cardinality(SeqToSet(c)) = Len(c)
       /\ \A i \in 1..Len(c) : {c[i], c[(i % Len(c)) + 1]} \in UndirectedEdges(g)

\* C15: the cycle list estimate_inbreeding sums over holds, for each connected
\* component with V nodes and E undirected edges, exactly E - V + 1 cycles, each
\* listed with all of its nodes, and the value returned is
\* min(0.25, S / max(1, N) * 0.03125) rounded to 4 decimals for the sum S of
\* their node counts and the number N of nodes.
C15_CycleBasisAndScore ==
    (op = "estimate_inbreeding" /\ Returned(result) /\ Returned(result2)) =>
        /\ \A n \in SeqToSet(result.v.nodes) :
               CyclesWithin(Cycles(result.v), ComponentOf(result.v, n))
                   = CycleRank(result.v, ComponentOf(result.v, n))
        /\ \A i \in 1..Len(Cycles(result.v)) : ListsACycle(result.v, Cycles(result.v)[i])
        /\ result2.v \in ScaledScores(SumLen(Cycles(result.v)), number_of_nodes(result.v))

(***************************************************************************)
(* The risk level of a loaded pedigree.                                    *)
(***************************************************************************)
\* a flag of the analysis returned starts with the given text
FlagEmitted(prefix) ==
    \E i \in 1..Len(result2.v.inheritance_flags) :
        IsPrefix(prefix, result2.v.inheritance_flags[i])

\* C17: for every pedigree load_json_payload returns, analyze_pedigree gives High
\* only if the score exceeds 0.0625 or a dominant flag was emitted, and Moderate
\* or High only if the score exceeds 0.015625 or a recessive or dominant flag was
\* emitted: the text of a condition name does not change the risk level.
C17_RiskFromScoreAndFlagKind ==
    (op = "analyze_loaded" /\ Returned(result2)) =>
        /\ result2.v.risk_level = "High" =>
               \/ result2.v.inbreeding_coefficient * UnitsPerScore > HighThreshold
               \/ FlagEmitted(DominantPrefix)
        /\ result2.v.risk_level \in {"Moderate", "High"} =>
               \/ result2.v.inbreeding_coefficient * UnitsPerScore > ModerateThreshold
               \/ FlagEmitted(RecessivePrefix)
               \/ FlagEmitted(DominantPrefix)

(***************************************************************************)
(* The relationships normalize_pedigree returns.                           *)
(***************************************************************************)
\* the relationships of the input pedigree, none when the key is absent
InputRelationships ==
    IF "relationships" \in DOMAIN orig.d THEN orig.d["relationships"].xs ELSE <<>>

\* the value under the canonical key when the key is present, else the value
\* under the alternate key, else None
Supplied(raw, canonical, alternate) ==
    IF canonical \in DOMAIN raw.d THEN raw.d[canonical]
    ELSE IF alternate \in DOMAIN raw.d THEN raw.d[alternate]
    ELSE None

\* the type as written, "" when there is none
SuppliedType(raw) == IF "type" \in DOMAIN raw.d THEN raw.d["type"].s ELSE <<>>

\* C16: normalize_pedigree does not reconcile the endpoints with the ids it has
\* reassigned: the relationships returned are as many as the input's, in the
\* same order, each with exactly the keys from, to and type, where from (to) is
\* the input's value under from (to) when that key is present and else the value
\* under from_id (to_id), as supplied, and type is the input's lower-cased and
\* trimmed.
C16_RelationshipsKeptAsSupplied ==
    (op = "normalize_pedigree" /\ Returned(result)) =>
        /\ result.v.d["relationships"].t = "list"
        /\ Len(result.v.d["relationships"].xs) = Len(InputRelationships)
        /\ \A i \in 1..Len(InputRelationships) :
               /\ DOMAIN result.v.d["relationships"].xs[i].d = {"from", "to", "type"}
               /\ result.v.d["relationships"].xs[i].d["from"]
                      = Supplied(InputRelationships[i], "from", "from_id")
               /\ result.v.d["relationships"].xs[i].d["to"]
                      = Supplied(InputRelationships[i], "to", "to_id")
               /\ result.v.d["relationships"].xs[i].d["type"]
                      = PyStr(Strip(Lower(SuppliedType(InputRelationships[i]))))

\* the people with the ids 2 and 1 have been renumbered 1 and 2, and the two
\* relationships, one with the alternate keys and one with both, are returned
\* in their order with the endpoints they came with
C16_Witness ==
    /\ op = "normalize_pedigree"
    /\ Returned(result)
    /\ "people" \in DOMAIN orig.d
    /\ orig.d["people"].t = "list"
    /\ Len(orig.d["people"].xs) = 2
    /\ orig.d["people"].xs[1] = Plain(PyInt(2))
    /\ orig.d["people"].xs[2] = Plain(PyInt(1))
    /\ Deref(heap, result.v).d["people"].xs[1].d["id"] = PyInt(1)
    /\ Deref(heap, result.v).d["people"].xs[2].d["id"] = PyInt(2)
    /\ InputRelationships = <<AltRel(PyInt(1), PyInt(2), PyStr(<<" ", "P", "a", "r", "e", "n", "t", " ">>)), BothKeys>>
    /\ result.v.d["relationships"].xs
           = <<Rel(PyInt(1), PyInt(2), PyStr(<<"p", "a", "r", "e", "n", "t">>)),
               Rel(PyInt(1), PyInt(1), PyStr(<<"s", "p", "o", "u", "s", "e">>))>>
=============================================================================
